---------------------------- MODULE Spec2Model ----------------------------
(***************************************************************************)
(* A model of the DDS wrapper core of vdr-light (src/src/common/           *)
(* dds_wrapper.hpp, dds_wrapper.cpp): the handle-owning Entity and the     *)
(* Reader with its retrieval operations.  The bus runtime (Cyclone DDS) is *)
(* the environment: every native call returns a nondeterministic result    *)
(* within the range its C API documents.                                   *)
(*                                                                         *)
(* Spec        the lifecycle of Entity objects                             *)
(* SpecReader  construction, destruction and retrieval of one Reader       *)
(***************************************************************************)
EXTENDS Integers, Sequences, FiniteSets

(***************************************************************************)
(* Bounds of the model.                                                    *)
(***************************************************************************)
\* Storage locations in which an Entity object can live.
MaxEnts == 2
\* Handles the runtime hands out before creation only fails.
MaxHandle == 2
\* Samples the reader cache holds at most.
MaxCache == 2
\* Largest max_samples a retrieval call is given.
MaxSamples == 2
\* Distinct payload values of a sample.
MaxData == 1
\* Largest number of triggered conditions dds_waitset_wait reports.
MaxTriggered == 2
\* Handles the runtime gives out to Participant, Topic and Writer objects.
MaxPubHandle == 5
\* Native QoS objects dds_create_qos can hand out.
MaxCfg == 3
\* History depths a caller passes, besides the presets' defaults.
MaxDepth == 1
\* Handles the runtime gives out to the readers and waitsets of Reader objects.
MaxRdHandle == 4

(***************************************************************************)
(* Native return codes (dds/dds.h).                                        *)
(***************************************************************************)
DDS_RETCODE_OK == 0
\* Stands for any negative status other than the sentinel.
DDS_RETCODE_ERROR == -1
DDS_RETCODE_BAD_PARAMETER == -3

\* The failure codes a native call returns in the model.
\* nullptr: in a slot of the samples buffer, and in Qos::qos_.
NULL == 0

ErrCodes == {DDS_RETCODE_ERROR, DDS_RETCODE_BAD_PARAMETER}
\* The statuses dds_delete, dds_waitset_attach return.
RetCodes == {DDS_RETCODE_OK} \cup ErrCodes

Ents == 1..MaxEnts
Handles == 1..MaxHandle

VARIABLES
    \* ---- Entity objects ----
    handle,       \* handle[e]: the member handle_ of the Entity at location e
    how,          \* how[e]: "dead" (no object), or the operation that last set handle_
    deleteCalls,  \* deleteCalls[h]: number of dds_delete(h) calls issued so far
    nextHandle,   \* the handle the runtime returns from its next successful creation
    callerOwned,  \* handles detached by release() and now owned by the caller
    detached,     \* handles ever returned by release()
    last,         \* the last Entity operation and what it did
    \* ---- one Reader object ----
    rstate,       \* "Uninitialized", "Bound", "Closed"
    rEntity,      \* Reader::entity_.handle_
    rWaitset,     \* Reader::waitset_.handle_
    attached,     \* the pairs <<waitset, reader>> the runtime holds attached
    cache,        \* the runtime's reader cache: a sequence of samples
    pc,           \* position of the retrieval call in progress ("idle": none)
    call,         \* the retrieval call in progress, or the last one made
    loan,         \* the slots the last successful native retrieval returned
    loanOpen,     \* TRUE from a successful dds_take/dds_read to dds_return_loan
    rlog,          \* native calls and callback invocations of the Reader operation
    prevRead      \* the read that returned just before the call in progress
                  \* in progress, or of the last one, in the order issued

entVars == <<handle, how, deleteCalls, nextHandle, callerOwned, detached, last>>
rdVars == <<rstate, rEntity, rWaitset, attached, cache, pc, call, loan, loanOpen, rlog,
           prevRead>>

\* The publication side: one Participant, one Topic and one Writer object.
VARIABLES
    pubLive,      \* pubLive[k]: the object of class k exists
    pubHandle,    \* pubHandle[k]: entity_.handle_ of that object
    pubNext,      \* the next handle the runtime gives out
    pubAlive,     \* the handles that are live entities of the runtime
    pubDeletes,   \* pubDeletes[h]: dds_delete(h) calls issued so far
    pubElsewhere, \* the handles moved out into objects constructed from these
    pcall,        \* the last operation on the publication side
    plog          \* the native calls that operation issued, in order

pubVars == <<pubLive, pubHandle, pubNext, pubAlive, pubDeletes, pubElsewhere, pcall, plog>>

\* Qos: a builder object and the native QoS objects its qos_ pointer owns
\* over time.
VARIABLES
    qobj,         \* qobj[q]: "dead", or "live" (constructed, possibly moved from)
    qptr,         \* qptr[q]: qos_ of object q (NULL, or a native QoS object)
    qcfg,         \* qcfg[n]: the policies set in native QoS object n
    qsaid,        \* qsaid[n]: per dimension, the last mutator call made on n
    qnext,        \* the next native QoS object dds_create_qos hands out
    qfreed,       \* qfreed[n]: dds_delete_qos(n) calls issued so far
    qlast         \* the last Qos operation

qosVars == <<qobj, qptr, qcfg, qsaid, qnext, qfreed, qlast>>

\* Reader objects as values: two objects, so that one can be moved into the
\* other, with the two Entity members each of them holds.
VARIABLES
    lobj,         \* lobj[o]: "dead", or "live" (constructed, possibly moved from)
    lEntity,      \* lEntity[o]: entity_.handle_ of Reader object o
    lWaitset,     \* lWaitset[o]: waitset_.handle_ of Reader object o
    lnext,        \* the next handle the runtime gives out
    lattached,    \* the pairs <<waitset, reader>> attached in the runtime
    ldel,         \* ldel[h]: dds_delete(h) calls issued so far
    llast,        \* the last operation on a Reader object
    llog          \* the native calls that operation issued, in order

lifeVars == <<lobj, lEntity, lWaitset, lnext, lattached, ldel, llast, llog>>

\* Two threads, each running one Entity operation on instances of its own,
\* statement by statement.
VARIABLES
    th0,          \* th0[x]: handle_ of instance x before the threads start
    thandle,      \* thandle[x]: handle_ of instance x
    top,          \* top[t]: the operation thread t runs
    tpc,          \* tpc[t]: the statement thread t is at
    tloc,         \* tloc[t]: the local variable h of release() in thread t
    tret,         \* tret[t]: the value release() returned to thread t
    tdel          \* tdel[h]: dds_delete(h) calls issued so far

thrVars == <<th0, thandle, top, tpc, tloc, tret, tdel>>

\* A probe process: main() of vss_probe or vssdag_probe, and its signal handler.
VARIABLES
    probe,        \* which probe runs
    g_running,    \* the cancellation flag
    main_pc,      \* the statement main() is at
    stack,        \* the objects of the try block constructed so far, in order
    iterations,   \* iterations of the publish loop started (counted up to MaxIters)
    sent,         \* writer.write calls of the iteration in progress
    stale,        \* TRUE when an iteration started while the flag was false
    released,     \* the native release calls issued, in order
    status        \* "running", or how main() ended

probeVars == <<probe, g_running, main_pc, stack, iterations, sent, stale, released, status>>

\* Qos objects as values: two builder objects and the native QoS objects
\* their qos_ pointers own.
VARIABLES
    bobj,         \* bobj[b]: "dead", or "live" (constructed, possibly moved from)
    bptr,         \* bptr[b]: qos_ of builder b (NULL, or a native QoS object)
    bnext,        \* the next native QoS object dds_create_qos hands out
    bfreed,       \* bfreed[n]: dds_delete_qos(n) calls issued so far
    bgiven,       \* the native QoS objects handed to a creation call so far
    blast         \* the last operation on a builder

bldVars == <<bobj, bptr, bnext, bfreed, bgiven, blast>>

\* The publish loop of vssdag_probe over the signals its pipeline produces.
VARIABLES
    seq,                \* uint32_t seq
    signals_published,  \* uint64_t signals_published
    written,            \* the messages dds_write accepted, in order
    dag_status,         \* "running", or "thrown" once writer.write threw
    dag_last            \* what the loop body did with the last signal

dagVars == <<seq, signals_published, written, dag_status, dag_last>>
vars == <<entVars, rdVars, pubVars, qosVars, lifeVars, thrVars, probeVars, bldVars, dagVars>>

(***************************************************************************)
(* Error: a native status code with a context string.                      *)
(***************************************************************************)
NoError == [code |-> 0, context |-> ""]
Error(code, context) == [code |-> code, context |-> context]

(***************************************************************************)
(* Entity: the conditions and assignments of its members, one operator per *)
(* place in the code.                                                      *)
(***************************************************************************)
\* bool valid() const noexcept { return handle_ > 0; }
Valid(h) == h > 0

\* Entity(): handle_(DDS_RETCODE_BAD_PARAMETER)
DefaultHandle == DDS_RETCODE_BAD_PARAMETER

\* Faulty variant: a negative creation result is wrapped like a handle.
CtorThrows_Never(h) == FALSE
\* Entity(dds_entity_t): if (handle_ < 0) throw Error(handle_, "Entity creation")
CtorThrows(h) == h < 0

\* ~Entity(): if (handle_ > 0) dds_delete(handle_)
DtorDeletes(h) == h > 0

\* Faulty variant: the destructor raises the failure instead of logging it.
DtorOutcome_Throw(rc) ==
    [warned |-> FALSE,
     thrown |-> IF rc # DDS_RETCODE_OK THEN Error(rc, "dds_delete") ELSE NoError]
\* ~Entity(): if (rc != DDS_RETCODE_OK) LOG(WARNING) << ...; nothing is thrown
DtorOutcome(rc) == [warned |-> rc # DDS_RETCODE_OK, thrown |-> NoError]

\* Faulty variant: a move leaves the source's handle in place.
SourceAfterMove_Keep(h) == h
\* Entity(Entity&&), operator=(Entity&&): other.handle_ = DDS_RETCODE_BAD_PARAMETER
SourceAfterMove(h) == DDS_RETCODE_BAD_PARAMETER

\* Faulty variant: the destination's old handle is dropped without dds_delete.
AssignDeletes_Never(h) == FALSE
\* operator=(Entity&&): if (handle_ > 0) dds_delete(handle_)
AssignDeletes(h) == h > 0

\* Faulty variant: no self-assignment guard.
AssignGuard_None(d, s) == TRUE
\* operator=(Entity&&): if (this != &other)
AssignGuard(d, s) == d # s

\* Faulty variant: release() leaves the handle in place.
AfterRelease_Keep(h) == h
\* release(): handle_ = DDS_RETCODE_BAD_PARAMETER
AfterRelease(h) == DDS_RETCODE_BAD_PARAMETER

\* Faulty variant: release() reads handle_ after resetting it.
ReleaseReturn_AfterReset(h) == DDS_RETCODE_BAD_PARAMETER
\* release(): dds_entity_t h = handle_; ... return h;
ReleaseReturn(h) == h

\* The record of an Entity operation; fields an operation has no use for keep
\* these values.
NoOp ==
    [op |-> "none", dst |-> 0, src |-> 0, arg |-> 0, ret |-> 0,
     preDst |-> 0, preSrc |-> 0, preHow |-> "dead",
     thrown |-> NoError, deleted |-> <<>>, rc |-> DDS_RETCODE_OK, warned |-> FALSE]

\* One more dds_delete(h) on the runtime's count.
CountDelete(h) == [deleteCalls EXCEPT ![h] = @ + 1]

\* What a creation call (dds_create_*) can return now: a fresh positive handle
\* or a negative error code.
CreateResults == (IF nextHandle <= MaxHandle THEN {nextHandle} ELSE {}) \cup ErrCodes

\* The raw values the Entity constructor is given: a creation result, zero, or
\* a handle the caller owns after release().
CtorInputs == CreateResults \cup {0} \cup callerOwned

InitEntity ==
    /\ handle = [e \in Ents |-> DefaultHandle]
    /\ how = [e \in Ents |-> "dead"]
    /\ deleteCalls = [h \in Handles |-> 0]
    /\ nextHandle = 1
    /\ callerOwned = {}
    /\ detached = {}
    /\ last = NoOp

\* No read returned just before.
NoPrev == [op |-> "none", max |-> 0, results |-> <<>>]

InitReader ==
    /\ rstate = "Uninitialized"
    /\ rEntity = DefaultHandle
    /\ rWaitset = DefaultHandle
    /\ attached = {}
    /\ cache = <<>>
    /\ pc = "idle"
    /\ call = [op |-> "none", max |-> 0, count |-> 0, i |-> 0,
               results |-> <<>>, valid_count |-> 0, ret |-> "none", thrown |-> NoError,
               before |-> <<>>, retval |-> 0]
    /\ loan = <<>>
    /\ loanOpen = FALSE
    /\ rlog = <<>>
    /\ prevRead = NoPrev

PubKinds == {"Participant", "Topic", "Writer"}
PubHandles == 1..MaxPubHandle

\* The record of an operation on the publication side.
NoPubCall ==
    [op |-> "none", kind |-> "none", ts |-> FALSE, rc |-> DDS_RETCODE_OK,
     thrown |-> NoError, ret |-> "none", warned |-> FALSE]

InitPub ==
    /\ pubLive = [k \in PubKinds |-> FALSE]
    /\ pubHandle = [k \in PubKinds |-> DefaultHandle]
    /\ pubNext = 1
    /\ pubAlive = {}
    /\ pubDeletes = [h \in PubHandles |-> 0]
    /\ pubElsewhere = {}
    /\ pcall = NoPubCall
    /\ plog = <<>>

\* The default history depths of the presets reliable_standard, best_effort.
StandardDepth == 100
BestEffortDepth == 1

\* The Qos object the mutators and presets work on.
Qs == {"qos"}
Cfgs == 1..MaxCfg

\* A policy that was never set in a native QoS object.
Unset == "unset"
\* dds_create_qos(): a QoS object with no policy set.
FreshQos ==
    [reliability |-> [kind |-> Unset, max_blocking_time |-> 0],
     durability |-> Unset,
     history |-> [kind |-> Unset, depth |-> 0]]
\* No mutator call made yet in any dimension.
NothingSaid ==
    [reliability |-> <<"none", 0, FALSE>>, durability |-> <<"none", 0, FALSE>>,
     history |-> <<"none", 0, FALSE>>]

NoQosOp == [op |-> "none", q |-> "none", arg |-> 0, given |-> FALSE,
            thrown |-> FALSE, freed |-> NULL]

InitQos ==
    /\ qobj = [q \in Qs |-> "dead"]
    /\ qptr = [q \in Qs |-> NULL]
    /\ qcfg = [n \in Cfgs |-> FreshQos]
    /\ qsaid = [n \in Cfgs |-> NothingSaid]
    /\ qnext = 1
    /\ qfreed = [n \in Cfgs |-> 0]
    /\ qlast = NoQosOp

\* The two Reader objects.
Rds == {"reader", "other"}
RdHandles == 1..MaxRdHandle

NoLifeOp ==
    [op |-> "none", dst |-> "none", src |-> "none",
     preE |-> DefaultHandle, preW |-> DefaultHandle, thrown |-> NoError]

InitLife ==
    /\ lobj = [o \in Rds |-> "dead"]
    /\ lEntity = [o \in Rds |-> DefaultHandle]
    /\ lWaitset = [o \in Rds |-> DefaultHandle]
    /\ lnext = 1
    /\ lattached = {}
    /\ ldel = [h \in RdHandles |-> 0]
    /\ llast = NoLifeOp
    /\ llog = <<>>

\* The threads, and the Entity instances each works on: the object of its
\* operation and the explicit source of its move.
Threads == {"A", "B"}
Obj(t) == IF t = "A" THEN "a1" ELSE "b1"
Src(t) == IF t = "A" THEN "a2" ELSE "b2"
Insts == {Obj(t) : t \in Threads} \cup {Src(t) : t \in Threads}
\* The handle an instance wraps when it wraps one: a handle of its own.
OwnHandle(x) == CASE x = "a1" -> 1 [] x = "a2" -> 2 [] x = "b1" -> 3 [] OTHER -> 4
ThreadOps == {"~Entity", "release", "operator=", "Entity(Entity&&)"}

\* Any instance wraps its handle or none; each thread is about to run any
\* operation (the object of a move construction is not constructed yet).
InitThreads ==
    /\ th0 \in [Insts -> {DefaultHandle} \cup {OwnHandle(x) : x \in Insts}]
    /\ \A x \in Insts : th0[x] \in {DefaultHandle, OwnHandle(x)}
    /\ top \in [Threads -> ThreadOps]
    /\ \A t \in Threads : top[t] = "Entity(Entity&&)" => th0[Obj(t)] = DefaultHandle
    /\ thandle = th0
    /\ tpc = [t \in Threads |-> "start"]
    /\ tloc = [t \in Threads |-> DefaultHandle]
    /\ tret = [t \in Threads |-> DefaultHandle]
    /\ tdel = [h \in {OwnHandle(x) : x \in Insts} |-> 0]

\* The other groups start from one fixed state; the threads from any.
InitIdleThreads ==
    /\ th0 = [x \in Insts |-> DefaultHandle]
    /\ top = [t \in Threads |-> "~Entity"]
    /\ thandle = th0
    /\ tpc = [t \in Threads |-> "done"]
    /\ tloc = [t \in Threads |-> DefaultHandle]
    /\ tret = [t \in Threads |-> DefaultHandle]
    /\ tdel = [h \in {OwnHandle(x) : x \in Insts} |-> 0]

MaxIters == 2
MaxSignals == 2

Probes == {"vss_probe", "vssdag_probe"}
\* The objects main() declares in its try block, in declaration order.
ProbeObjects == <<"participant", "qos", "topic", "writer">>

\* main() is about to enter its try block; no signal has been delivered.
InitProbe ==
    /\ probe \in Probes
    /\ g_running = TRUE
    /\ main_pc = "construct"
    /\ stack = <<>>
    /\ iterations = 0
    /\ sent = 0
    /\ stale = FALSE
    /\ released = <<>>
    /\ status = "running"

\* No probe process: main() has returned before creating anything.
InitNoProbe ==
    /\ probe = "vss_probe"
    /\ g_running = TRUE
    /\ main_pc = "exit"
    /\ stack = <<>>
    /\ iterations = 0
    /\ sent = 0
    /\ stale = FALSE
    /\ released = <<>>
    /\ status = "returned 1"

Builders == {"qos", "other"}

\* The record of an operation on a builder.
NoBuilderOp ==
    [op |-> "none", dst |-> "none", src |-> "none", preDst |-> NULL, preSrc |-> NULL,
     thrown |-> FALSE]

\* No builder constructed, no native QoS object allocated.
InitBuilders ==
    /\ bobj = [b \in Builders |-> "dead"]
    /\ bptr = [b \in Builders |-> NULL]
    /\ bnext = 1
    /\ bfreed = [n \in Cfgs |-> 0]
    /\ bgiven = {}
    /\ blast = NoBuilderOp

MaxSeq == 2
MaxWritten == 3

\* vss::types::SignalQuality, and alternatives of vss::types::Value.
SignalQualities == {"VALID", "INVALID", "NOT_AVAILABLE"}
ValueAlternatives == {"bool", "uint32_t", "std::monostate"}

\* The record of one pass through the body of the publish loop.
NoSignal ==
    [quality |-> "none", value |-> "none", seq_before |-> 0, write_called |-> FALSE,
     rc |-> DDS_RETCODE_OK]

\* uint32_t seq = 0; uint64_t signals_published = 0;
InitDag ==
    /\ seq = 0
    /\ signals_published = 0
    /\ written = <<>>
    /\ dag_status = "running"
    /\ dag_last = NoSignal

InitCore == InitEntity /\ InitReader /\ InitPub /\ InitQos /\ InitLife /\ InitBuilders /\ InitDag

Init == InitCore /\ InitIdleThreads /\ InitNoProbe

(***************************************************************************)
(* Entity operations.                                                      *)
(***************************************************************************)
\* Entity::Entity() noexcept
EntityDefaultCtor(e) ==
    /\ how[e] = "dead"
    /\ handle' = [handle EXCEPT ![e] = DefaultHandle]
    /\ how' = [how EXCEPT ![e] = "default"]
    /\ last' = [NoOp EXCEPT !.op = "default_ctor", !.dst = e]
    /\ UNCHANGED <<deleteCalls, nextHandle, callerOwned, detached, rdVars, pubVars, qosVars, lifeVars, thrVars, probeVars, bldVars, dagVars>>

\* Entity::Entity(dds_entity_t handle)
EntityCtor(e, v) ==
    /\ how[e] = "dead"
    /\ v \in CtorInputs
    /\ nextHandle' = IF v = nextHandle THEN nextHandle + 1 ELSE nextHandle
    /\ callerOwned' = callerOwned \ {v}
    /\ IF CtorThrows(v)
         THEN /\ last' = [NoOp EXCEPT !.op = "ctor", !.dst = e, !.arg = v,
                                      !.thrown = Error(v, "Entity creation")]
              /\ UNCHANGED <<handle, how>>
         ELSE /\ handle' = [handle EXCEPT ![e] = v]
              /\ how' = [how EXCEPT ![e] = "ctor"]
              /\ last' = [NoOp EXCEPT !.op = "ctor", !.dst = e, !.arg = v]
    /\ UNCHANGED <<deleteCalls, detached, rdVars, pubVars, qosVars, lifeVars, thrVars, probeVars, bldVars, dagVars>>

\* Entity::~Entity(); rc is what dds_delete returns.  The storage of a destroyed
\* object is not read again: its handle is recorded as the sentinel.
EntityDtor(e, rc) ==
    /\ how[e] # "dead"
    /\ rc \in RetCodes
    /\ IF DtorDeletes(handle[e])
         THEN /\ deleteCalls' = CountDelete(handle[e])
              /\ last' = [NoOp EXCEPT !.op = "dtor", !.dst = e,
                                      !.preDst = handle[e], !.preHow = how[e],
                                      !.deleted = <<handle[e]>>, !.rc = rc,
                                      !.warned = DtorOutcome(rc).warned,
                                      !.thrown = DtorOutcome(rc).thrown]
         ELSE /\ rc = DDS_RETCODE_OK
              /\ last' = [NoOp EXCEPT !.op = "dtor", !.dst = e,
                                      !.preDst = handle[e], !.preHow = how[e]]
              /\ UNCHANGED deleteCalls
    /\ how' = [how EXCEPT ![e] = "dead"]
    /\ handle' = [handle EXCEPT ![e] = DefaultHandle]
    /\ UNCHANGED <<nextHandle, callerOwned, detached, rdVars, pubVars, qosVars, lifeVars, thrVars, probeVars, bldVars, dagVars>>

\* Entity::Entity(Entity&& other) noexcept
EntityMoveCtor(d, s) ==
    /\ how[d] = "dead"
    /\ how[s] # "dead"
    /\ handle' = [handle EXCEPT ![d] = handle[s], ![s] = SourceAfterMove(handle[s])]
    /\ how' = [how EXCEPT ![d] = "moved_to", ![s] = "moved_from"]
    /\ last' = [NoOp EXCEPT !.op = "move_ctor", !.dst = d, !.src = s,
                            !.preSrc = handle[s]]
    /\ UNCHANGED <<deleteCalls, nextHandle, callerOwned, detached, rdVars, pubVars, qosVars, lifeVars, thrVars, probeVars, bldVars, dagVars>>

\* Entity& Entity::operator=(Entity&& other) noexcept; rc is what dds_delete
\* returns (the code does not look at it)
EntityMoveAssign(d, s, rc) ==
    /\ how[d] # "dead"
    /\ how[s] # "dead"
    /\ rc \in RetCodes
    /\ IF AssignGuard(d, s)
         THEN /\ IF AssignDeletes(handle[d])
                   THEN /\ deleteCalls' = CountDelete(handle[d])
                        /\ last' = [NoOp EXCEPT !.op = "move_assign", !.dst = d, !.src = s,
                                                !.preDst = handle[d], !.preSrc = handle[s],
                                                !.preHow = how[d],
                                                !.deleted = <<handle[d]>>, !.rc = rc]
                   ELSE /\ rc = DDS_RETCODE_OK
                        /\ last' = [NoOp EXCEPT !.op = "move_assign", !.dst = d, !.src = s,
                                                !.preDst = handle[d], !.preSrc = handle[s],
                                                !.preHow = how[d]]
                        /\ UNCHANGED deleteCalls
              /\ handle' = [[handle EXCEPT ![d] = handle[s]]
                                    EXCEPT ![s] = SourceAfterMove(handle[s])]
              /\ how' = [[how EXCEPT ![d] = "moved_to"] EXCEPT ![s] = "moved_from"]
         ELSE /\ rc = DDS_RETCODE_OK
              /\ last' = [NoOp EXCEPT !.op = "move_assign", !.dst = d, !.src = s,
                                      !.preDst = handle[d], !.preSrc = handle[s],
                                      !.preHow = how[d]]
              /\ UNCHANGED <<handle, how, deleteCalls>>
    /\ UNCHANGED <<nextHandle, callerOwned, detached, rdVars, pubVars, qosVars, lifeVars, thrVars, probeVars, bldVars, dagVars>>

\* dds_entity_t Entity::release() noexcept
EntityRelease(e) ==
    /\ how[e] # "dead"
    /\ handle' = [handle EXCEPT ![e] = AfterRelease(handle[e])]
    /\ how' = [how EXCEPT ![e] = "released"]
    /\ callerOwned' = IF handle[e] > 0 THEN callerOwned \cup {handle[e]} ELSE callerOwned
    /\ detached' = IF handle[e] > 0 THEN detached \cup {handle[e]} ELSE detached
    /\ last' = [NoOp EXCEPT !.op = "release", !.dst = e, !.preDst = handle[e],
                            !.preHow = how[e], !.ret = ReleaseReturn(handle[e])]
    /\ UNCHANGED <<deleteCalls, nextHandle, rdVars, pubVars, qosVars, lifeVars, thrVars, probeVars, bldVars, dagVars>>

Next ==
    \/ \E e \in Ents : EntityDefaultCtor(e)
    \/ \E e \in Ents, v \in -3..MaxHandle : EntityCtor(e, v)
    \/ \E e \in Ents, rc \in RetCodes : EntityDtor(e, rc)
    \/ \E d, s \in Ents : EntityMoveCtor(d, s)
    \/ \E d, s \in Ents, rc \in RetCodes : EntityMoveAssign(d, s, rc)
    \/ \E e \in Ents : EntityRelease(e)

Spec == Init /\ [][Next]_vars

(***************************************************************************)
(* Properties of the Entity lifecycle (Spec).                              *)
(***************************************************************************)
\* The live Entity objects that hold handle h.
Holders(h) == {e \in Ents : how[e] # "dead" /\ handle[e] = h}
\* The handles the runtime has handed out, each wrapped by an Entity.
Wrapped == 1..(nextHandle - 1)
AllDestroyed == \A e \in Ents : how[e] = "dead"

\* C1: without release(), a wrapped positive handle gets at most one
\* dds_delete at every point (none while an Entity still holds it), exactly
\* one once every Entity is destroyed; destroying an Entity that holds no
\* valid handle (default-constructed, moved-from, released) issues none.
C1_ReleasedExactlyOnce ==
    /\ \A h \in Handles : h \notin detached =>
          /\ deleteCalls[h] <= 1
          /\ (Holders(h) # {} \/ h \notin Wrapped) => deleteCalls[h] = 0
    /\ AllDestroyed => \A h \in Wrapped : h \notin detached => deleteCalls[h] = 1
    /\ (last.op = "dtor" /\ (~Valid(last.preDst)
                             \/ last.preHow \in {"default", "moved_from", "released"}))
          => last.deleted = <<>>

\* Every handle was wrapped, moved about and released once; the Entity
\* destroyed last had been moved from.
C1_Witness ==
    /\ AllDestroyed
    /\ detached = {}
    /\ Wrapped = Handles
    /\ \A h \in Handles : deleteCalls[h] = 1
    /\ last.op = "dtor"
    /\ last.preHow = "moved_from"

\* C2: no two live Entity objects hold the same valid handle.
C2_SingleOwner ==
    \A e1, e2 \in Ents :
        (e1 # e2 /\ how[e1] # "dead" /\ how[e2] # "dead" /\ Valid(handle[e1]))
            => handle[e1] # handle[e2]

\* Two live Entities with valid handles, one of which got its handle by a move.
C2_Witness ==
    \E e1, e2 \in Ents :
        /\ e1 # e2
        /\ how[e1] = "moved_to" /\ Valid(handle[e1])
        /\ how[e2] = "ctor" /\ Valid(handle[e2])

\* C3 as stated: after release() and after being the source of any move
\* construction or move assignment, valid() is false, and destroying the
\* Entity then issues no dds_delete.
C3_InvalidAfterAnyMove ==
    /\ \A e \in Ents : how[e] \in {"released", "moved_from"} => ~Valid(handle[e])
    /\ last.op \in {"move_ctor", "move_assign"} => ~Valid(handle[last.src])
    /\ last.op = "release" => ~Valid(handle[last.dst])
    /\ (last.op = "dtor" /\ last.preHow \in {"released", "moved_from"})
          => (last.deleted = <<>> /\ ~last.warned)

\* C3: after release() and after being the source of a move construction or
\* of a move assignment into another Entity, valid() is false, and destroying
\* the Entity then issues no dds_delete; an Entity move-assigned to itself
\* keeps its handle.
C3_InvalidAfterReleaseOrMove ==
    /\ \A e \in Ents : how[e] \in {"released", "moved_from"} => ~Valid(handle[e])
    /\ (last.op \in {"move_ctor", "move_assign"} /\ last.dst # last.src)
          => ~Valid(handle[last.src])
    /\ (last.op = "move_assign" /\ last.dst = last.src)
          => handle[last.src] = last.preSrc
    /\ last.op = "release" => ~Valid(handle[last.dst])
    /\ (last.op = "dtor" /\ last.preHow \in {"released", "moved_from"})
          => (last.deleted = <<>> /\ ~last.warned)

\* An Entity that had held a valid handle, released it, and was then destroyed.
C3_Witness ==
    /\ last.op = "dtor"
    /\ last.preHow = "released"
    /\ detached # {}

\* C8: the constructor throws for every value that is not positive, and an
\* Entity is constructed only from a positive value, then valid and holding it.
C8_CtorRejectsNonPositive ==
    last.op = "ctor" =>
        /\ last.arg <= 0 => last.thrown = Error(last.arg, "Entity creation")
        /\ last.thrown = NoError =>
              /\ last.arg > 0
              /\ Valid(handle[last.dst])
              /\ handle[last.dst] = last.arg

\* C9: move assignment between distinct Entities issues one dds_delete for the
\* destination's old handle iff it was valid, then the destination holds the
\* source's handle and the source the sentinel; move construction transfers
\* without a dds_delete; self-assignment changes nothing and deletes nothing.
C9_MoveTransfers ==
    /\ (last.op = "move_assign" /\ last.dst # last.src) =>
          /\ last.deleted = IF last.preDst > 0 THEN <<last.preDst>> ELSE <<>>
          /\ handle[last.dst] = last.preSrc
          /\ handle[last.src] = DDS_RETCODE_BAD_PARAMETER
    /\ last.op = "move_ctor" =>
          /\ last.deleted = <<>>
          /\ handle[last.dst] = last.preSrc
          /\ handle[last.src] = DDS_RETCODE_BAD_PARAMETER
    /\ (last.op = "move_assign" /\ last.dst = last.src) =>
          /\ last.deleted = <<>>
          /\ handle[last.dst] = last.preDst

\* A move assignment between two Entities that both held a valid handle.
C9_Witness ==
    /\ last.op = "move_assign"
    /\ last.dst # last.src
    /\ last.preDst > 0
    /\ last.preSrc > 0
    /\ last.deleted = <<last.preDst>>

\* A self-assignment of an Entity that holds a valid handle.
C9_WitnessSelf ==
    /\ last.op = "move_assign"
    /\ last.dst = last.src
    /\ last.preDst > 0

\* C10: when the dds_delete issued by the destructor fails, the failure is
\* logged as a warning and nothing is thrown; the object is destroyed and the
\* handle got that one dds_delete only.
C10_DtorFailureNotRaised ==
    (last.op = "dtor" /\ last.deleted # <<>> /\ last.rc # DDS_RETCODE_OK) =>
        /\ last.warned
        /\ last.thrown = NoError
        /\ how[last.dst] = "dead"
        /\ last.deleted = <<last.preDst>>
        /\ last.preDst \notin detached => deleteCalls[last.preDst] = 1

\* A destructor whose dds_delete returned an error.
C10_Witness ==
    /\ last.op = "dtor"
    /\ last.deleted # <<>>
    /\ last.rc = DDS_RETCODE_ERROR
    /\ last.warned

\* C11: release() returns the handle the Entity held, issues no dds_delete
\* and changes no other Entity; afterwards no Entity holds the handle (the
\* caller owns it), and a second release() returns the sentinel.
C11_ReleaseDetaches ==
    [][last'.op = "release" =>
         LET e == last'.dst IN
         /\ how[e] # "dead"
         /\ last'.ret = handle[e]
         /\ last'.deleted = <<>>
         /\ deleteCalls' = deleteCalls
         /\ \A x \in Ents \ {e} : handle'[x] = handle[x] /\ how'[x] = how[x]
         /\ handle'[e] = DDS_RETCODE_BAD_PARAMETER
         /\ Valid(handle[e]) =>
               /\ \A x \in Ents : how'[x] # "dead" => handle'[x] # handle[e]
               /\ handle[e] \in callerOwned'
         /\ how[e] = "released" => last'.ret = DDS_RETCODE_BAD_PARAMETER
      ]_vars

\* A second release() on an Entity, after its first returned a valid handle
\* that the caller still owns.
C11_Witness ==
    /\ last.op = "release"
    /\ last.preHow = "released"
    /\ last.ret = DDS_RETCODE_BAD_PARAMETER
    /\ callerOwned # {}

\* A release() that returned a valid handle while another Entity was live.
C11_WitnessFirst ==
    /\ last.op = "release"
    /\ last.ret > 0
    /\ \E x \in Ents : x # last.dst /\ Valid(handle[x])

(***************************************************************************)
(* Reader: one Reader object, its two Entity members and the runtime's     *)
(* cache behind it.                                                        *)
(***************************************************************************)
\* A slot the runtime fills: dds_sample_info_t::valid_data and the payload
\* pointer (NULL, or the value it points to).
Samples == [valid_data : BOOLEAN, ptr : 0..MaxData]

Min(a, b) == IF a < b THEN a ELSE b

\* What a creation call can return when n is the runtime's next handle.
CreateResultsAt(n) == (IF n <= MaxHandle THEN {n} ELSE {}) \cup ErrCodes

\* The record of a Reader operation.
NoCall ==
    [op |-> "none", max |-> 0, count |-> 0, i |-> 0, results |-> <<>>,
     valid_count |-> 0, ret |-> "none", thrown |-> NoError, before |-> <<>>,
     retval |-> 0]

\* What is remembered of a read when the next retrieval starts right after it.
PrevOf(c) ==
    IF c.op = "read" /\ c.ret = "returned"
      THEN [op |-> c.op, max |-> c.max, results |-> c.results]
      ELSE NoPrev

\* The dds_delete calls the destructor of an Entity holding h issues.
DtorCalls(h) == IF DtorDeletes(h) THEN << <<"dds_delete", h>> >> ELSE <<>>

\* deleteCalls after the dds_delete calls of the event sequence evs.
RECURSIVE CountDeletes(_, _)
CountDeletes(evs, dc) ==
    IF evs = <<>> THEN dc
    ELSE CountDeletes(Tail(evs),
                      IF Head(evs)[1] = "dds_delete"
                        THEN [dc EXCEPT ![Head(evs)[2]] = @ + 1] ELSE dc)

\* The runtime drops the attachments of a deleted waitset or reader.
Detach(att, evs) ==
    {p \in att : \A k \in 1..Len(evs) :
                    evs[k][1] = "dds_delete" => (evs[k][2] # p[1] /\ evs[k][2] # p[2])}

\* Faulty variant: the attach status is not looked at.
AttachFailed_Ignore(rc) == FALSE
\* Reader::Reader: if (rc != DDS_RETCODE_OK) throw Error(rc, "dds_waitset_attach")
AttachFailed(rc) == rc # DDS_RETCODE_OK

\* Reader::Reader(participant, topic, qos, listener).  r1, r2 and rc are what
\* dds_create_reader, dds_create_waitset and dds_waitset_attach return.  The
\* members are initialised in declaration order (entity_, waitset_); when a
\* step throws, the members already constructed are destroyed in reverse order.
ReaderCtor(r1, r2, rc) ==
    /\ pc = "idle"
    /\ rstate # "Bound"
    /\ r1 \in CreateResults
    /\ IF CtorThrows(r1)
         THEN \* entity_ is not constructed: nothing to unwind
              /\ r2 = r1 /\ rc = DDS_RETCODE_OK
              /\ rlog' = << <<"dds_create_reader", r1>> >>
              /\ call' = [NoCall EXCEPT !.op = "ctor", !.thrown = Error(r1, "Entity creation")]
              /\ rstate' = "Uninitialized"
              /\ rEntity' = DefaultHandle /\ rWaitset' = DefaultHandle
              /\ UNCHANGED <<nextHandle, attached>>
         ELSE /\ r2 \in CreateResultsAt(nextHandle + 1)
              /\ IF CtorThrows(r2)
                   THEN \* waitset_ is not constructed: entity_ is destroyed
                        /\ rc = DDS_RETCODE_OK
                        /\ nextHandle' = nextHandle + 1
                        /\ rlog' = << <<"dds_create_reader", r1>>,
                                      <<"dds_create_waitset", r2>> >> \o DtorCalls(r1)
                        /\ call' = [NoCall EXCEPT !.op = "ctor",
                                                  !.thrown = Error(r2, "Entity creation")]
                        /\ rstate' = "Uninitialized"
                        /\ rEntity' = DefaultHandle /\ rWaitset' = DefaultHandle
                        /\ UNCHANGED attached
                   ELSE /\ nextHandle' = nextHandle + 2
                        /\ IF AttachFailed(rc)
                             THEN \* the body throws: waitset_, then entity_ are destroyed
                                  /\ rlog' = << <<"dds_create_reader", r1>>,
                                                <<"dds_create_waitset", r2>>,
                                                <<"dds_waitset_attach", rc>> >>
                                             \o DtorCalls(r2) \o DtorCalls(r1)
                                  /\ call' = [NoCall EXCEPT !.op = "ctor",
                                                !.thrown = Error(rc, "dds_waitset_attach")]
                                  /\ rstate' = "Uninitialized"
                                  /\ rEntity' = DefaultHandle /\ rWaitset' = DefaultHandle
                                  /\ UNCHANGED attached
                             ELSE /\ rlog' = << <<"dds_create_reader", r1>>,
                                                <<"dds_create_waitset", r2>>,
                                                <<"dds_waitset_attach", rc>> >>
                                  /\ call' = [NoCall EXCEPT !.op = "ctor"]
                                  /\ rstate' = "Bound"
                                  /\ rEntity' = r1 /\ rWaitset' = r2
                                  /\ attached' = IF rc = DDS_RETCODE_OK
                                                   THEN attached \cup {<<r2, r1>>}
                                                   ELSE attached
    /\ deleteCalls' = CountDeletes(rlog', deleteCalls)
    /\ cache' = <<>> /\ loan' = <<>> /\ loanOpen' = FALSE
    /\ prevRead' = NoPrev
    /\ UNCHANGED <<handle, how, callerOwned, detached, last, pc, pubVars, qosVars, lifeVars, thrVars, probeVars, bldVars, dagVars>>

\* Reader::~Reader (implicit): waitset_, then entity_ are destroyed.
ReaderDtor ==
    /\ pc = "idle"
    /\ rstate = "Bound"
    /\ rlog' = DtorCalls(rWaitset) \o DtorCalls(rEntity)
    /\ deleteCalls' = CountDeletes(rlog', deleteCalls)
    /\ attached' = Detach(attached, rlog')
    /\ call' = [NoCall EXCEPT !.op = "dtor"]
    /\ rstate' = "Closed"
    /\ rEntity' = DefaultHandle /\ rWaitset' = DefaultHandle
    /\ cache' = <<>> /\ loan' = <<>> /\ loanOpen' = FALSE
    /\ prevRead' = NoPrev
    /\ UNCHANGED <<handle, how, nextHandle, callerOwned, detached, last, pc, pubVars, qosVars, lifeVars, thrVars, probeVars, bldVars, dagVars>>

\* The runtime delivers a sample (data, or a lifecycle-only notification) into
\* the cache of the bound Reader.  A retrieval call works on the slots its
\* native call returned and never looks at the cache again, so a delivery
\* during a call has the effect of one right after it: deliveries are taken
\* between calls.  The record of the last operation is kept until then.
Arrive(s) ==
    /\ rstate = "Bound"
    /\ pc = "idle"
    /\ Len(cache) < MaxCache
    /\ cache' = Append(cache, s)
    /\ call' = [NoCall EXCEPT !.op = "arrive"]
    /\ rlog' = <<>>
    /\ loan' = <<>>
    /\ prevRead' = NoPrev
    /\ UNCHANGED <<entVars, rstate, rEntity, rWaitset, attached, pc, loanOpen, pubVars, qosVars, lifeVars, thrVars, probeVars, bldVars, dagVars>>

\* Faulty variant: take_each retrieves with dds_read.
NativeCall_EachReads(op) == IF op = "take" THEN "dds_take" ELSE "dds_read"
\* Faulty variant: read retrieves with dds_take.
NativeCall_AllTake(op) == "dds_take"
\* The native retrieval call of each operation.
NativeCall(op) == IF op = "read" THEN "dds_read" ELSE "dds_take"

\* Faulty variant: one slot more than max_samples is requested.
Requested_OneMore(max) == max + 1
\* dds_take(entity_.get(), samples.data(), infos.data(), max_samples, max_samples)
Requested(max) == max

\* Faulty variant: dds_take leaves the samples it hands out in the cache.
CacheAfter_Keep(native, c, n) == c
\* The runtime's cache after a native retrieval returned its first n samples:
\* dds_take removes them, dds_read leaves them.
CacheAfter(native, c, n) ==
    IF native = "dds_take" THEN SubSeq(c, n + 1, Len(c)) ELSE c

\* Faulty variant: the loan is returned before the slots are scanned.
NextPc_LoanFirst(op, p) ==
    CASE p = "retrieve" -> "return_loan"
      [] p = "return_loan" -> "scan"
      [] p = "scan" -> "return"
      [] OTHER -> "idle"
\* The order of the statements of take, take_each and read: the native call,
\* the loop over the returned slots, dds_return_loan, return.
NextPc(op, p) ==
    CASE p = "retrieve" -> "scan"
      [] p = "scan" -> "return_loan"
      [] p = "return_loan" -> "return"
      [] OTHER -> "idle"

\* Faulty variant: the valid_data flag is not looked at.
KeepSlot_PtrOnly(slot) == slot.ptr # NULL
\* if (infos[i].valid_data && samples[i] != nullptr)
KeepSlot(slot) == slot.valid_data /\ slot.ptr # NULL

\* Faulty variant: the loan is returned with the number of records kept.
LoanCount_Results(c) == Len(c.results)
\* dds_return_loan(entity_.get(), samples.data(), count)
LoanCount(c) == c.count

\* Faulty variant: a call that failed is issued a second time.
NativeCalls_Retry(name, rc) ==
    IF rc < 0 THEN << <<name, rc>>, <<name, rc>> >> ELSE << <<name, rc>> >>
\* The native calls of one call statement, e.g. count = dds_take(...): the
\* statement is in no loop, so it is one call whatever it returns.
NativeCalls(name, rc) == << <<name, rc>> >>

\* Faulty variant: a negative count is not looked at.
RetrieveThrows_Never(count) == FALSE
\* if (count < 0) throw Error(count, "dds_take" / "dds_read")
RetrieveThrows(count) == count < 0

\* take / take_each / read up to the native call: dds_take or dds_read returns
\* a negative status (res), or the first min(max_samples, cached) samples
\* (res = 0).  call.before records the cache the call found.
Retrieve(op, max, res) ==
    /\ pc = "idle"
    /\ rstate = "Bound"
    /\ res \in {0} \cup ErrCodes
    /\ LET count == IF res < 0 THEN res ELSE Min(Requested(max), Len(cache)) IN
       IF RetrieveThrows(count)
         THEN /\ call' = [NoCall EXCEPT !.op = op, !.max = max, !.count = count,
                                        !.before = cache,
                                        !.thrown = Error(count, NativeCall(op))]
              /\ rlog' = NativeCalls(NativeCall(op), count)
              /\ UNCHANGED <<pc, cache, loan, loanOpen>>
         ELSE /\ call' = [NoCall EXCEPT !.op = op, !.max = max, !.count = count,
                                        !.before = cache]
              /\ rlog' = NativeCalls(NativeCall(op), count)
              /\ loan' = SubSeq(cache, 1, count)
              /\ loanOpen' = TRUE
              /\ cache' = IF count > 0 THEN CacheAfter(NativeCall(op), cache, count)
                                       ELSE cache
              /\ pc' = NextPc(op, "retrieve")
    /\ prevRead' = PrevOf(call)
    /\ UNCHANGED <<entVars, rstate, rEntity, rWaitset, attached, pubVars, qosVars, lifeVars, thrVars, probeVars, bldVars, dagVars>>

\* One iteration of for (int32_t i = 0; i < count; ++i), or its exit.  In
\* take_each the callback runs on a kept slot; throws says whether it throws.
Scan(throws) ==
    /\ pc = "scan"
    /\ IF call.i < call.count
         THEN LET slot == loan[call.i + 1] IN
              IF KeepSlot(slot)
                THEN IF call.op = "take_each"
                       THEN /\ rlog' = Append(rlog, <<"callback", call.i + 1>>)
                            /\ IF throws
                                 THEN \* the exception leaves take_each
                                      /\ call' = [call EXCEPT !.thrown = Error(0, "callback")]
                                      /\ pc' = "idle"
                                 ELSE /\ call' = [call EXCEPT !.i = @ + 1,
                                                              !.valid_count = @ + 1]
                                      /\ pc' = pc
                       ELSE /\ ~throws
                            /\ call' = [call EXCEPT
                                          !.i = @ + 1,
                                          !.results = Append(@, [slot |-> call.i + 1,
                                                                 value |-> slot.ptr])]
                            /\ UNCHANGED <<pc, rlog>>
                ELSE /\ ~throws
                     /\ call' = [call EXCEPT !.i = @ + 1]
                     /\ UNCHANGED <<pc, rlog>>
         ELSE /\ ~throws
              /\ pc' = NextPc(call.op, "scan")
              /\ UNCHANGED <<call, rlog>>
    /\ UNCHANGED <<entVars, rstate, rEntity, rWaitset, attached, cache, loan, loanOpen, prevRead, pubVars, qosVars, lifeVars, thrVars, probeVars, bldVars, dagVars>>

\* dds_return_loan(entity_.get(), samples.data(), count)
ReturnLoan ==
    /\ pc = "return_loan"
    /\ rlog' = Append(rlog, <<"dds_return_loan", LoanCount(call)>>)
    /\ loanOpen' = FALSE
    /\ pc' = NextPc(call.op, "return_loan")
    /\ UNCHANGED <<entVars, rstate, rEntity, rWaitset, attached, cache, call, loan, prevRead, pubVars, qosVars, lifeVars, thrVars, probeVars, bldVars, dagVars>>

\* Faulty variant: take_each returns the number of slots retrieved.
ReturnValue_Count(c) == IF c.op = "take_each" THEN c.count ELSE Len(c.results)
\* The value returned: valid_count by take_each; of take and read, which
\* return the collection results, its size.
ReturnValue(c) == IF c.op = "take_each" THEN c.valid_count ELSE Len(c.results)

\* return results; / return valid_count;
Return ==
    /\ pc = "return"
    /\ call' = [call EXCEPT !.ret = "returned", !.retval = ReturnValue(call)]
    /\ pc' = NextPc(call.op, "return")
    /\ UNCHANGED <<entVars, rstate, rEntity, rWaitset, attached, cache, loan, loanOpen, rlog, prevRead, pubVars, qosVars, lifeVars, thrVars, probeVars, bldVars, dagVars>>

\* What dds_waitset_wait returns: a negative status, or the number of
\* triggered conditions (0: the timeout elapsed).
WaitResults == ErrCodes \cup (0..MaxTriggered)

\* Faulty variant: a negative status is reported as "nothing ready".
WaitThrows_Never(rc) == FALSE
\* Reader::wait: if (rc < 0) throw Error(rc, "dds_waitset_wait")
WaitThrows(rc) == rc < 0

\* Faulty variant: only a single triggered condition counts as ready.
WaitReturn_ExactlyOne(rc) == rc = 1
\* Reader::wait: return rc > 0
WaitReturn(rc) == rc > 0

\* bool Reader::wait(int32_t timeout_ms); rc is what dds_waitset_wait returns.
\* timeout_ms is handed to the runtime as DDS_MSECS(timeout_ms) and has no
\* other use in the wrapper.
ReaderWait(rc) ==
    /\ pc = "idle"
    /\ rstate = "Bound"
    /\ rc \in WaitResults
    /\ rlog' = NativeCalls("dds_waitset_wait", rc)
    /\ call' = IF WaitThrows(rc)
                 THEN [NoCall EXCEPT !.op = "wait", !.count = rc,
                                     !.thrown = Error(rc, "dds_waitset_wait")]
                 ELSE [NoCall EXCEPT !.op = "wait", !.count = rc,
                                     !.ret = IF WaitReturn(rc) THEN "true" ELSE "false"]
    /\ loan' = <<>>
    /\ prevRead' = NoPrev
    /\ UNCHANGED <<entVars, rstate, rEntity, rWaitset, attached, cache, pc, loanOpen, pubVars, qosVars, lifeVars, thrVars, probeVars, bldVars, dagVars>>

NextReader ==
    \/ \E r1, r2 \in -3..MaxHandle, rc \in RetCodes : ReaderCtor(r1, r2, rc)
    \/ ReaderDtor
    \/ \E s \in Samples : Arrive(s)
    \/ \E op \in {"take", "take_each", "read"}, max \in 1..MaxSamples,
          res \in {0} \cup ErrCodes : Retrieve(op, max, res)
    \/ \E throws \in BOOLEAN : Scan(throws)
    \/ ReturnLoan
    \/ Return
    \/ \E rc \in -3..MaxTriggered : ReaderWait(rc)

SpecReader == Init /\ [][NextReader]_vars

(***************************************************************************)
(* Participant, Topic and Writer: each holds one Entity member entity_,    *)
(* initialised from one dds_create_* call.                                 *)
(***************************************************************************)
\* The native creation call in the member initialiser of class k.
CreateCall(k) ==
    CASE k = "Participant" -> "dds_create_participant"
      [] k = "Topic"       -> "dds_create_topic"
      [] OTHER             -> "dds_create_writer"

\* The objects the constructor of class k takes by reference.
Parents(k) ==
    CASE k = "Participant" -> {}
      [] k = "Topic"       -> {"Participant"}
      [] OTHER             -> {"Participant", "Topic"}

\* What the creation call of class k returns: a negative status, or a fresh
\* handle when every handle it is given is a live entity of the runtime.
PubCreateResults(k) ==
    (IF pubNext <= MaxPubHandle /\ \A q \in Parents(k) : pubHandle[q] \in pubAlive
       THEN {pubNext} ELSE {}) \cup ErrCodes

\* Participant::Participant, Topic::Topic, Writer::Writer: entity_(dds_create_*(...))
\* runs Entity(dds_entity_t) on the value h the native call returned.
Construct(k, h) ==
    /\ ~pubLive[k]
    /\ \A q \in Parents(k) : pubLive[q]
    /\ h \in PubCreateResults(k)
    /\ plog' = NativeCalls(CreateCall(k), h)
    /\ IF CtorThrows(h)
         THEN /\ pcall' = [NoPubCall EXCEPT !.op = "ctor", !.kind = k, !.rc = h,
                                            !.thrown = Error(h, "Entity creation")]
              /\ UNCHANGED <<pubLive, pubHandle, pubNext, pubAlive>>
         ELSE /\ pcall' = [NoPubCall EXCEPT !.op = "ctor", !.kind = k, !.rc = h,
                                            !.ret = "constructed"]
              /\ pubLive' = [pubLive EXCEPT ![k] = TRUE]
              /\ pubHandle' = [pubHandle EXCEPT ![k] = h]
              /\ pubNext' = pubNext + 1
              /\ pubAlive' = pubAlive \cup {h}
    /\ UNCHANGED <<pubDeletes, pubElsewhere, entVars, rdVars, qosVars, lifeVars, thrVars, probeVars, bldVars, dagVars>>

ParticipantCtor(h) == Construct("Participant", h)

TopicCtor(h) == Construct("Topic", h)

WriterCtor(h) == Construct("Writer", h)

\* The status dds_delete(h) returns: a live entity is deleted, anything else
\* is rejected.
DeleteStatus(h) == IF h \in pubAlive THEN DDS_RETCODE_OK ELSE DDS_RETCODE_BAD_PARAMETER

\* The implicit destructor of the object of class k: ~Entity on entity_.
\* Deleting a participant deletes the entities created from it.
PubDtor(k) ==
    /\ pubLive[k]
    /\ LET h == pubHandle[k]
           rc == DeleteStatus(h)
       IN  IF DtorDeletes(h)
             THEN /\ plog' = << <<"dds_delete", h>> >>
                  /\ pubDeletes' = [pubDeletes EXCEPT ![h] = @ + 1]
                  /\ pubAlive' = IF rc # DDS_RETCODE_OK THEN pubAlive
                                 ELSE IF k = "Participant" THEN {}
                                 ELSE pubAlive \ {h}
                  /\ pcall' = [NoPubCall EXCEPT !.op = "dtor", !.kind = k, !.rc = rc,
                                                !.ret = "returned",
                                                !.thrown = DtorOutcome(rc).thrown,
                                                !.warned = DtorOutcome(rc).warned]
             ELSE /\ plog' = <<>>
                  /\ pcall' = [NoPubCall EXCEPT !.op = "dtor", !.kind = k,
                                                !.ret = "returned"]
                  /\ UNCHANGED <<pubDeletes, pubAlive>>
    /\ pubLive' = [pubLive EXCEPT ![k] = FALSE]
    /\ pubHandle' = [pubHandle EXCEPT ![k] = DefaultHandle]
    /\ UNCHANGED <<pubNext, pubElsewhere, entVars, rdVars, qosVars, lifeVars, thrVars, probeVars, bldVars, dagVars>>

\* The implicit move constructor of class k, with the object of class k as
\* its source: Entity(Entity&&) on entity_ hands the handle to the object
\* being constructed and leaves the source invalid.
PubMoveFrom(k) ==
    /\ pubLive[k]
    /\ pubElsewhere' = pubElsewhere \cup (IF pubHandle[k] > 0 THEN {pubHandle[k]} ELSE {})
    /\ pubHandle' = [pubHandle EXCEPT ![k] = SourceAfterMove(@)]
    /\ pcall' = [NoPubCall EXCEPT !.op = "move", !.kind = k, !.ret = "returned"]
    /\ plog' = <<>>
    /\ UNCHANGED <<pubLive, pubNext, pubAlive, pubDeletes, entVars, rdVars, qosVars, lifeVars, thrVars, probeVars, bldVars, dagVars>>

\* The native call of the two write overloads; it is also the context of the
\* Error they throw.
WriteCall(ts) == IF ts THEN "dds_write_ts" ELSE "dds_write"

\* Faulty variant: only the generic error status is raised.
WriteThrows_OnlyError(rc) == rc = DDS_RETCODE_ERROR
\* Writer::write: if (rc != DDS_RETCODE_OK) throw Error(rc, ...)
WriteThrows(rc) == rc # DDS_RETCODE_OK

\* What dds_write / dds_write_ts return on the writer handle h.
WriteResults(h) == IF h \in pubAlive THEN RetCodes ELSE ErrCodes

\* void Writer::write(const T&) (ts = FALSE) and
\* void Writer::write(const T&, dds_time_t) (ts = TRUE).
WriterWrite(ts, rc) ==
    /\ pubLive["Writer"]
    /\ rc \in WriteResults(pubHandle["Writer"])
    /\ plog' = NativeCalls(WriteCall(ts), rc)
    /\ pcall' = IF WriteThrows(rc)
                  THEN [NoPubCall EXCEPT !.op = "write", !.kind = "Writer", !.ts = ts,
                                         !.rc = rc, !.thrown = Error(rc, WriteCall(ts))]
                  ELSE [NoPubCall EXCEPT !.op = "write", !.kind = "Writer", !.ts = ts,
                                         !.rc = rc, !.ret = "returned"]
    /\ UNCHANGED <<pubLive, pubHandle, pubNext, pubAlive, pubDeletes, pubElsewhere, entVars, rdVars, qosVars, lifeVars, thrVars, probeVars, bldVars, dagVars>>

NextPub ==
    \/ \E h \in -3..MaxPubHandle : ParticipantCtor(h)
    \/ \E h \in -3..MaxPubHandle : TopicCtor(h)
    \/ \E h \in -3..MaxPubHandle : WriterCtor(h)
    \/ \E k \in PubKinds : PubDtor(k)
    \/ \E k \in PubKinds : PubMoveFrom(k)
    \/ \E ts \in BOOLEAN, rc \in RetCodes : WriterWrite(ts, rc)

SpecPub == Init /\ [][NextPub]_vars

\* A process of the repository is a publisher (the probes) or a subscriber:
\* one run works on the publication side or on the Reader, never on both.
PubUntouched == ~(\E k \in PubKinds : pubLive[k]) /\ pcall = NoPubCall
ReaderUntouched == rstate = "Uninitialized" /\ call = NoCall

NextCore ==
    \/ PubUntouched /\ NextReader
    \/ ReaderUntouched /\ NextPub

SpecCore == Init /\ [][NextCore]_vars

(***************************************************************************)
(* Qos: an owning pointer qos_ to a native QoS object, six mutators that   *)
(* each set one policy in it, and the three presets of qos_profiles.       *)
(***************************************************************************)
\* DDS_SECS(n): a duration of n seconds.  dds_duration_t counts nanoseconds;
\* durations are counted in milliseconds here, the unit of wait's timeout_ms.
DDS_SECS(n) == n * 1000

\* The blocking times and history depths callers pass.
Durations == {DDS_SECS(1), DDS_SECS(10)}
Depths == (1..MaxDepth) \cup {StandardDepth}

\* dds_qset_reliability(qos, kind, max_blocking_time)
dds_qset_reliability(c, kind, t) ==
    [c EXCEPT !.reliability = [kind |-> kind, max_blocking_time |-> t]]

\* Faulty variant: setting the durability clears the history policy.
dds_qset_durability_ClearsHistory(c, kind) ==
    [c EXCEPT !.durability = kind, !.history = FreshQos.history]
\* dds_qset_durability(qos, kind)
dds_qset_durability(c, kind) == [c EXCEPT !.durability = kind]

\* dds_qset_history(qos, kind, depth)
dds_qset_history(c, kind, depth) ==
    [c EXCEPT !.history = [kind |-> kind, depth |-> depth]]

\* The six mutators, as functions of the native QoS object's content.
SetReliabilityReliable(c, t) == dds_qset_reliability(c, "DDS_RELIABILITY_RELIABLE", t)
SetReliabilityBestEffort(c) == dds_qset_reliability(c, "DDS_RELIABILITY_BEST_EFFORT", 0)
SetDurabilityVolatile(c) == dds_qset_durability(c, "DDS_DURABILITY_VOLATILE")
SetDurabilityTransientLocal(c) == dds_qset_durability(c, "DDS_DURABILITY_TRANSIENT_LOCAL")
SetHistoryKeepLast(c, depth) == dds_qset_history(c, "DDS_HISTORY_KEEP_LAST", depth)
SetHistoryKeepAll(c) == dds_qset_history(c, "DDS_HISTORY_KEEP_ALL", 0)

\* The record of the last call per dimension after the call fn(arg) in dim;
\* the third component tells that the dimension had been set before.
Said(said, dim, fn, arg) == [said EXCEPT ![dim] = <<fn, arg, @[1] # "none">>]

\* Qos::Qos(): if (qos_ == nullptr) throw std::runtime_error(...)
QosCtorThrows(ptr) == ptr = NULL

\* What dds_create_qos() returns: a new native QoS object, or nullptr.
QosCreateResults == (IF qnext <= MaxCfg THEN {qnext} ELSE {}) \cup {NULL}

\* if (qos_ != nullptr) dds_delete_qos(qos_): the calls counted, and the
\* content of the freed object gone.
FreeIfSet(ptr, f) == IF ptr # NULL THEN [f EXCEPT ![ptr] = @ + 1] ELSE f
Forget(ptr, m, blank) == IF ptr # NULL THEN [m EXCEPT ![ptr] = blank] ELSE m

\* Qos::Qos()
QosCtor(q, ptr) ==
    /\ qobj[q] = "dead"
    /\ ptr \in QosCreateResults
    /\ IF QosCtorThrows(ptr)
         THEN /\ qlast' = [NoQosOp EXCEPT !.op = "Qos", !.q = q, !.thrown = TRUE]
              /\ UNCHANGED <<qobj, qptr, qnext>>
         ELSE /\ qlast' = [NoQosOp EXCEPT !.op = "Qos", !.q = q]
              /\ qobj' = [qobj EXCEPT ![q] = "live"]
              /\ qptr' = [qptr EXCEPT ![q] = ptr]
              /\ qnext' = qnext + 1
    /\ UNCHANGED <<qcfg, qsaid, qfreed, entVars, rdVars, pubVars, lifeVars, thrVars, probeVars, bldVars, dagVars>>

\* Qos::~Qos()
QosDtor(q) ==
    /\ qobj[q] = "live"
    /\ qfreed' = FreeIfSet(qptr[q], qfreed)
    /\ qcfg' = Forget(qptr[q], qcfg, FreshQos)
    /\ qsaid' = Forget(qptr[q], qsaid, NothingSaid)
    /\ qobj' = [qobj EXCEPT ![q] = "dead"]
    /\ qptr' = [qptr EXCEPT ![q] = NULL]
    /\ qlast' = [NoQosOp EXCEPT !.op = "~Qos", !.q = q, !.freed = qptr[q]]
    /\ UNCHANGED <<qnext, entVars, rdVars, pubVars, lifeVars, thrVars, probeVars, bldVars, dagVars>>

\* One mutator call fn(arg) on object q: the native setter writes into the
\* object behind qos_, and does nothing when handed nullptr.
Mutate(q, dim, fn, arg, given, new) ==
    /\ qobj[q] = "live"
    /\ IF qptr[q] # NULL
         THEN /\ qcfg' = [qcfg EXCEPT ![qptr[q]] = new]
              /\ qsaid' = [qsaid EXCEPT ![qptr[q]] = Said(@, dim, fn, arg)]
         ELSE UNCHANGED <<qcfg, qsaid>>
    /\ qlast' = [NoQosOp EXCEPT !.op = fn, !.q = q, !.arg = arg, !.given = given]
    /\ UNCHANGED <<qobj, qptr, qnext, qfreed, entVars, rdVars, pubVars, lifeVars, thrVars, probeVars, bldVars, dagVars>>

\* The configuration the mutators work on; only read when qos_ is not null.
Cfg(q) == qcfg[IF qptr[q] # NULL THEN qptr[q] ELSE 1]

\* Qos& reliability_reliable(dds_duration_t max_blocking_time = DDS_SECS(1))
reliability_reliable(q, given, t) ==
    LET max_blocking_time == IF given THEN t ELSE DDS_SECS(1)
    IN  Mutate(q, "reliability", "reliability_reliable", max_blocking_time, given,
               SetReliabilityReliable(Cfg(q), max_blocking_time))

reliability_best_effort(q) ==
    Mutate(q, "reliability", "reliability_best_effort", 0, FALSE,
           SetReliabilityBestEffort(Cfg(q)))

durability_volatile(q) ==
    Mutate(q, "durability", "durability_volatile", 0, FALSE,
           SetDurabilityVolatile(Cfg(q)))

durability_transient_local(q) ==
    Mutate(q, "durability", "durability_transient_local", 0, FALSE,
           SetDurabilityTransientLocal(Cfg(q)))

history_keep_last(q, depth) ==
    Mutate(q, "history", "history_keep_last", depth, TRUE,
           SetHistoryKeepLast(Cfg(q), depth))

history_keep_all(q) ==
    Mutate(q, "history", "history_keep_all", 0, FALSE, SetHistoryKeepAll(Cfg(q)))

\* A preset: Qos qos; three mutator calls; return qos.  The object q is the
\* one the caller initialises from the value returned.
Preset(q, name, ptr, arg, given, cfg, said) ==
    /\ qobj[q] = "dead"
    /\ ptr \in QosCreateResults
    /\ IF QosCtorThrows(ptr)
         THEN /\ qlast' = [NoQosOp EXCEPT !.op = name, !.q = q, !.arg = arg,
                                          !.given = given, !.thrown = TRUE]
              /\ UNCHANGED <<qobj, qptr, qnext, qcfg, qsaid>>
         ELSE /\ qlast' = [NoQosOp EXCEPT !.op = name, !.q = q, !.arg = arg,
                                          !.given = given]
              /\ qobj' = [qobj EXCEPT ![q] = "live"]
              /\ qptr' = [qptr EXCEPT ![q] = ptr]
              /\ qnext' = qnext + 1
              /\ qcfg' = [qcfg EXCEPT ![ptr] = cfg]
              /\ qsaid' = [qsaid EXCEPT ![ptr] = said]
    /\ UNCHANGED <<qfreed, entVars, rdVars, pubVars, lifeVars, thrVars, probeVars, bldVars, dagVars>>

\* Qos reliable_critical()
reliable_critical(q, ptr) ==
    Preset(q, "reliable_critical", ptr, 0, FALSE,
           SetHistoryKeepAll(SetDurabilityTransientLocal(
               SetReliabilityReliable(FreshQos, DDS_SECS(10)))),
           Said(Said(Said(NothingSaid,
               "reliability", "reliability_reliable", DDS_SECS(10)),
               "durability", "durability_transient_local", 0),
               "history", "history_keep_all", 0))

\* Faulty variant: the depth passed is ignored.
DepthArg_Ignored(given, d, default) == default
\* history_depth: the argument, or the default of the declaration.
DepthArg(given, d, default) == IF given THEN d ELSE default

\* Qos reliable_standard(int32_t history_depth = 100)
reliable_standard(q, ptr, given, d) ==
    LET history_depth == DepthArg(given, d, StandardDepth)
    IN  Preset(q, "reliable_standard", ptr, d, given,
               SetHistoryKeepLast(SetDurabilityVolatile(
                   SetReliabilityReliable(FreshQos, DDS_SECS(1))), history_depth),
               Said(Said(Said(NothingSaid,
                   "reliability", "reliability_reliable", DDS_SECS(1)),
                   "durability", "durability_volatile", 0),
                   "history", "history_keep_last", history_depth))

\* Qos best_effort(int32_t history_depth = 1)
best_effort(q, ptr, given, d) ==
    LET history_depth == DepthArg(given, d, BestEffortDepth)
    IN  Preset(q, "best_effort", ptr, d, given,
               SetHistoryKeepLast(SetDurabilityVolatile(
                   SetReliabilityBestEffort(FreshQos)), history_depth),
               Said(Said(Said(NothingSaid,
                   "reliability", "reliability_best_effort", 0),
                   "durability", "durability_volatile", 0),
                   "history", "history_keep_last", history_depth))

NextQos ==
    \/ \E q \in Qs, ptr \in 0..MaxCfg : QosCtor(q, ptr)
    \/ \E q \in Qs : QosDtor(q)
    \/ \E q \in Qs, given \in BOOLEAN, t \in Durations : reliability_reliable(q, given, t)
    \/ \E q \in Qs : reliability_best_effort(q)
    \/ \E q \in Qs : durability_volatile(q)
    \/ \E q \in Qs : durability_transient_local(q)
    \/ \E q \in Qs, depth \in Depths : history_keep_last(q, depth)
    \/ \E q \in Qs : history_keep_all(q)
    \/ \E q \in Qs, ptr \in 0..MaxCfg : reliable_critical(q, ptr)
    \/ \E q \in Qs, ptr \in 0..MaxCfg, given \in BOOLEAN, d \in Depths :
          reliable_standard(q, ptr, given, d)
    \/ \E q \in Qs, ptr \in 0..MaxCfg, given \in BOOLEAN, d \in Depths :
          best_effort(q, ptr, given, d)

SpecQos == Init /\ [][NextQos]_vars

(***************************************************************************)
(* Reader objects as values: construction, destruction and the implicit    *)
(* move operations, member by member (entity_, then waitset_).             *)
(***************************************************************************)
\* Faulty variant: the members are destroyed in declaration order.
TearDown_DeclarationOrder(e, w) == DtorCalls(e) \o DtorCalls(w)
\* The members of a Reader are destroyed in reverse declaration order:
\* waitset_, then entity_.
TearDown(e, w) == DtorCalls(w) \o DtorCalls(e)

\* ldel after the dds_delete calls of the event sequence evs.
RECURSIVE CountLifeDeletes(_, _)
CountLifeDeletes(evs, dc) ==
    IF evs = <<>> THEN dc
    ELSE CountLifeDeletes(Tail(evs),
                          IF Head(evs)[1] = "dds_delete"
                            THEN [dc EXCEPT ![Head(evs)[2]] = @ + 1] ELSE dc)

\* What the creation calls of a Reader constructor return.
LifeCreateResults(n) == (IF n <= MaxRdHandle THEN {n} ELSE {}) \cup ErrCodes

\* Reader::Reader on object o; r1, r2, rc are what dds_create_reader,
\* dds_create_waitset and dds_waitset_attach return.
ReaderCtorAt(o, r1, r2, rc) ==
    /\ lobj[o] = "dead"
    /\ r1 \in LifeCreateResults(lnext)
    /\ IF CtorThrows(r1)
         THEN /\ r2 = r1 /\ rc = DDS_RETCODE_OK
              /\ llog' = << <<"dds_create_reader", r1>> >>
              /\ llast' = [NoLifeOp EXCEPT !.op = "Reader", !.dst = o,
                                           !.thrown = Error(r1, "Entity creation")]
              /\ UNCHANGED <<lobj, lEntity, lWaitset, lnext, lattached>>
         ELSE /\ r2 \in LifeCreateResults(lnext + 1)
              /\ IF CtorThrows(r2)
                   THEN /\ rc = DDS_RETCODE_OK
                        /\ lnext' = lnext + 1
                        /\ llog' = << <<"dds_create_reader", r1>>,
                                      <<"dds_create_waitset", r2>> >> \o DtorCalls(r1)
                        /\ llast' = [NoLifeOp EXCEPT !.op = "Reader", !.dst = o,
                                                     !.thrown = Error(r2, "Entity creation")]
                        /\ UNCHANGED <<lobj, lEntity, lWaitset, lattached>>
                   ELSE /\ lnext' = lnext + 2
                        /\ IF AttachFailed(rc)
                             THEN /\ llog' = << <<"dds_create_reader", r1>>,
                                                <<"dds_create_waitset", r2>>,
                                                <<"dds_waitset_attach", rc>> >>
                                             \o TearDown(r1, r2)
                                  /\ llast' = [NoLifeOp EXCEPT !.op = "Reader", !.dst = o,
                                                 !.preE = r1, !.preW = r2,
                                                 !.thrown = Error(rc, "dds_waitset_attach")]
                                  /\ UNCHANGED <<lobj, lEntity, lWaitset, lattached>>
                             ELSE /\ llog' = << <<"dds_create_reader", r1>>,
                                                <<"dds_create_waitset", r2>>,
                                                <<"dds_waitset_attach", rc>> >>
                                  /\ llast' = [NoLifeOp EXCEPT !.op = "Reader", !.dst = o]
                                  /\ lobj' = [lobj EXCEPT ![o] = "live"]
                                  /\ lEntity' = [lEntity EXCEPT ![o] = r1]
                                  /\ lWaitset' = [lWaitset EXCEPT ![o] = r2]
                                  /\ lattached' = lattached \cup {<<r2, r1>>}
    /\ ldel' = CountLifeDeletes(llog', ldel)
    /\ UNCHANGED <<entVars, rdVars, pubVars, qosVars, thrVars, probeVars, bldVars, dagVars>>

\* The implicit destructor of Reader object o.
ReaderDtorAt(o) ==
    /\ lobj[o] = "live"
    /\ llog' = TearDown(lEntity[o], lWaitset[o])
    /\ ldel' = CountLifeDeletes(llog', ldel)
    /\ lattached' = Detach(lattached, llog')
    /\ lobj' = [lobj EXCEPT ![o] = "dead"]
    /\ lEntity' = [lEntity EXCEPT ![o] = DefaultHandle]
    /\ lWaitset' = [lWaitset EXCEPT ![o] = DefaultHandle]
    /\ llast' = [NoLifeOp EXCEPT !.op = "~Reader", !.dst = o,
                                 !.preE = lEntity[o], !.preW = lWaitset[o]]
    /\ UNCHANGED <<lnext, entVars, rdVars, pubVars, qosVars, thrVars, probeVars, bldVars, dagVars>>

\* The implicit Reader(Reader&&): Entity(Entity&&) on entity_, then waitset_.
ReaderMoveCtor(d, s) ==
    /\ d # s
    /\ lobj[d] = "dead"
    /\ lobj[s] = "live"
    /\ lobj' = [lobj EXCEPT ![d] = "live"]
    /\ lEntity' = [lEntity EXCEPT ![d] = lEntity[s], ![s] = SourceAfterMove(lEntity[s])]
    /\ lWaitset' = [lWaitset EXCEPT ![d] = lWaitset[s],
                                    ![s] = SourceAfterMove(lWaitset[s])]
    /\ llog' = <<>>
    /\ llast' = [NoLifeOp EXCEPT !.op = "Reader(Reader&&)", !.dst = d, !.src = s,
                                 !.preE = lEntity[s], !.preW = lWaitset[s]]
    /\ UNCHANGED <<lnext, lattached, ldel, entVars, rdVars, pubVars, qosVars, thrVars, probeVars, bldVars, dagVars>>

\* The dds_delete call operator=(Entity&&) issues for the old handle h.
AssignCalls(h) == IF AssignDeletes(h) THEN << <<"dds_delete", h>> >> ELSE <<>>

\* The implicit Reader::operator=(Reader&&): operator=(Entity&&) on entity_,
\* then on waitset_.
ReaderMoveAssign(d, s) ==
    /\ lobj[d] = "live"
    /\ lobj[s] = "live"
    /\ IF AssignGuard(d, s)
         THEN /\ llog' = AssignCalls(lEntity[d]) \o AssignCalls(lWaitset[d])
              /\ lEntity' = [[lEntity EXCEPT ![d] = lEntity[s]]
                                      EXCEPT ![s] = SourceAfterMove(lEntity[s])]
              /\ lWaitset' = [[lWaitset EXCEPT ![d] = lWaitset[s]]
                                        EXCEPT ![s] = SourceAfterMove(lWaitset[s])]
         ELSE /\ llog' = <<>>
              /\ UNCHANGED <<lEntity, lWaitset>>
    /\ ldel' = CountLifeDeletes(llog', ldel)
    /\ lattached' = Detach(lattached, llog')
    /\ llast' = [NoLifeOp EXCEPT !.op = "operator=", !.dst = d, !.src = s,
                                 !.preE = lEntity[d], !.preW = lWaitset[d]]
    /\ UNCHANGED <<lobj, lnext, entVars, rdVars, pubVars, qosVars, thrVars, probeVars, bldVars, dagVars>>

NextLife ==
    \/ \E o \in Rds, r1, r2 \in -3..MaxRdHandle, rc \in RetCodes : ReaderCtorAt(o, r1, r2, rc)
    \/ \E o \in Rds : ReaderDtorAt(o)
    \/ \E d, s \in Rds : ReaderMoveCtor(d, s)
    \/ \E d, s \in Rds : ReaderMoveAssign(d, s)

SpecReaderLife == Init /\ [][NextLife]_vars

(***************************************************************************)
(* Entity operations statement by statement, run by two threads on         *)
(* instances of their own.                                                 *)
(***************************************************************************)
\* Faulty variant: release() keeps h in one static variable.
LocalOf_Static(t) == "A"
\* The stack frame that holds the local variable h of release() in thread t.
LocalOf(t) == t

Goto(t, l) == tpc' = [tpc EXCEPT ![t] = l]

\* Entity::~Entity(): if (handle_ > 0) { rc = dds_delete(handle_); ... }
ThreadDtor(t) ==
    /\ top[t] = "~Entity"
    /\ \/ /\ tpc[t] = "start"
          /\ Goto(t, IF DtorDeletes(thandle[Obj(t)]) THEN "delete" ELSE "done")
          /\ UNCHANGED tdel
       \/ /\ tpc[t] = "delete"
          /\ tdel' = [tdel EXCEPT ![thandle[Obj(t)]] = @ + 1]
          /\ Goto(t, "done")
    /\ UNCHANGED <<th0, thandle, top, tloc, tret, entVars, rdVars, pubVars, qosVars, lifeVars, probeVars, bldVars, dagVars>>

\* Entity::release(): h = handle_; handle_ = DDS_RETCODE_BAD_PARAMETER; return h
ThreadRelease(t) ==
    /\ top[t] = "release"
    /\ \/ /\ tpc[t] = "start"
          /\ tloc' = [tloc EXCEPT ![LocalOf(t)] = thandle[Obj(t)]]
          /\ Goto(t, "reset")
          /\ UNCHANGED <<thandle, tret>>
       \/ /\ tpc[t] = "reset"
          /\ thandle' = [thandle EXCEPT ![Obj(t)] = AfterRelease(@)]
          /\ Goto(t, "return")
          /\ UNCHANGED <<tloc, tret>>
       \/ /\ tpc[t] = "return"
          /\ tret' = [tret EXCEPT ![t] = tloc[LocalOf(t)]]
          /\ Goto(t, "done")
          /\ UNCHANGED <<thandle, tloc>>
    /\ UNCHANGED <<th0, top, tdel, entVars, rdVars, pubVars, qosVars, lifeVars, probeVars, bldVars, dagVars>>

\* Entity::operator=(Entity&& other): the guard, the dds_delete of the old
\* handle, handle_ = other.handle_, other.handle_ = DDS_RETCODE_BAD_PARAMETER
ThreadMoveAssign(t) ==
    /\ top[t] = "operator="
    /\ \/ /\ tpc[t] = "start"
          /\ Goto(t, IF ~AssignGuard(Obj(t), Src(t)) THEN "done"
                     ELSE IF AssignDeletes(thandle[Obj(t)]) THEN "delete" ELSE "take")
          /\ UNCHANGED <<thandle, tdel>>
       \/ /\ tpc[t] = "delete"
          /\ tdel' = [tdel EXCEPT ![thandle[Obj(t)]] = @ + 1]
          /\ Goto(t, "take")
          /\ UNCHANGED thandle
       \/ /\ tpc[t] = "take"
          /\ thandle' = [thandle EXCEPT ![Obj(t)] = thandle[Src(t)]]
          /\ Goto(t, "reset")
          /\ UNCHANGED tdel
       \/ /\ tpc[t] = "reset"
          /\ thandle' = [thandle EXCEPT ![Src(t)] = SourceAfterMove(@)]
          /\ Goto(t, "done")
          /\ UNCHANGED tdel
    /\ UNCHANGED <<th0, top, tloc, tret, entVars, rdVars, pubVars, qosVars, lifeVars, probeVars, bldVars, dagVars>>

\* Entity::Entity(Entity&& other): handle_(other.handle_), then
\* other.handle_ = DDS_RETCODE_BAD_PARAMETER
ThreadMoveCtor(t) ==
    /\ top[t] = "Entity(Entity&&)"
    /\ \/ /\ tpc[t] = "start"
          /\ thandle' = [thandle EXCEPT ![Obj(t)] = thandle[Src(t)]]
          /\ Goto(t, "reset")
       \/ /\ tpc[t] = "reset"
          /\ thandle' = [thandle EXCEPT ![Src(t)] = SourceAfterMove(@)]
          /\ Goto(t, "done")
    /\ UNCHANGED <<th0, top, tloc, tret, tdel, entVars, rdVars, pubVars, qosVars, lifeVars, probeVars, bldVars, dagVars>>

NextThreads ==
    \/ \E t \in Threads : ThreadDtor(t)
    \/ \E t \in Threads : ThreadRelease(t)
    \/ \E t \in Threads : ThreadMoveAssign(t)
    \/ \E t \in Threads : ThreadMoveCtor(t)

InitSpecThreads == InitCore /\ InitThreads /\ InitNoProbe

SpecThreads == InitSpecThreads /\ [][NextThreads]_vars

(***************************************************************************)
(* Qos as a value: construction, destruction and moves of two builders.    *)
(***************************************************************************)
\* What dds_create_qos() returns: a new native QoS object, or nullptr.
BuilderCreateResults == (IF bnext <= MaxCfg THEN {bnext} ELSE {}) \cup {NULL}

\* Qos::Qos()
BuilderCtor(b, ptr) ==
    /\ bobj[b] = "dead"
    /\ ptr \in BuilderCreateResults
    /\ IF QosCtorThrows(ptr)
         THEN /\ blast' = [NoBuilderOp EXCEPT !.op = "Qos", !.dst = b, !.thrown = TRUE]
              /\ UNCHANGED <<bobj, bptr, bnext>>
         ELSE /\ blast' = [NoBuilderOp EXCEPT !.op = "Qos", !.dst = b]
              /\ bobj' = [bobj EXCEPT ![b] = "live"]
              /\ bptr' = [bptr EXCEPT ![b] = ptr]
              /\ bnext' = bnext + 1
    /\ UNCHANGED <<bfreed, bgiven, entVars, rdVars, pubVars, qosVars, lifeVars, thrVars, probeVars, dagVars>>

\* Qos::~Qos(): if (qos_ != nullptr) dds_delete_qos(qos_)
BuilderDtor(b) ==
    /\ bobj[b] = "live"
    /\ bfreed' = FreeIfSet(bptr[b], bfreed)
    /\ bobj' = [bobj EXCEPT ![b] = "dead"]
    /\ bptr' = [bptr EXCEPT ![b] = NULL]
    /\ blast' = [NoBuilderOp EXCEPT !.op = "~Qos", !.dst = b, !.preDst = bptr[b]]
    /\ UNCHANGED <<bnext, bgiven, entVars, rdVars, pubVars, qosVars, lifeVars, thrVars, probeVars, dagVars>>

\* Faulty variant: the source of a move keeps its pointer.
QosSourceAfterMove_Keep(ptr) == ptr
\* other.qos_ = nullptr
QosSourceAfterMove(ptr) == NULL

\* Qos::Qos(Qos&& other) noexcept
BuilderMoveCtor(d, s) ==
    /\ bobj[d] = "dead"
    /\ bobj[s] = "live"
    /\ bptr' = [[bptr EXCEPT ![d] = bptr[s]] EXCEPT ![s] = QosSourceAfterMove(bptr[s])]
    /\ bobj' = [bobj EXCEPT ![d] = "live"]
    /\ blast' = [NoBuilderOp EXCEPT !.op = "Qos(Qos&&)", !.dst = d, !.src = s,
                                    !.preSrc = bptr[s]]
    /\ UNCHANGED <<bnext, bfreed, bgiven, entVars, rdVars, pubVars, qosVars, lifeVars, thrVars, probeVars, dagVars>>

\* if (this != &other)
QosAssignGuard(d, s) == d # s

\* Qos& Qos::operator=(Qos&& other) noexcept
BuilderMoveAssign(d, s) ==
    /\ bobj[d] = "live"
    /\ bobj[s] = "live"
    /\ IF QosAssignGuard(d, s)
         THEN /\ bfreed' = FreeIfSet(bptr[d], bfreed)
              /\ bptr' = [[bptr EXCEPT ![d] = bptr[s]]
                                EXCEPT ![s] = QosSourceAfterMove(bptr[s])]
         ELSE UNCHANGED <<bfreed, bptr>>
    /\ blast' = [NoBuilderOp EXCEPT !.op = "operator=", !.dst = d, !.src = s,
                                    !.preDst = bptr[d], !.preSrc = bptr[s]]
    /\ UNCHANGED <<bobj, bnext, bgiven, entVars, rdVars, pubVars, qosVars, lifeVars, thrVars, probeVars, dagVars>>

\* dds::Topic topic(participant, ..., qos.get()) and the like: the creation
\* call is handed qos_ for its duration; the created object keeps neither the
\* pointer nor the builder.
BuilderUsed(b) ==
    /\ bobj[b] = "live"
    /\ bptr[b] # NULL
    /\ bgiven' = bgiven \cup {bptr[b]}
    /\ blast' = [NoBuilderOp EXCEPT !.op = "get", !.dst = b, !.preDst = bptr[b]]
    /\ UNCHANGED <<bobj, bptr, bnext, bfreed, entVars, rdVars, pubVars, qosVars, lifeVars, thrVars, probeVars, dagVars>>

NextBuilders ==
    \/ \E b \in Builders, ptr \in Cfgs \cup {NULL} : BuilderCtor(b, ptr)
    \/ \E b \in Builders : BuilderDtor(b)
    \/ \E d, s \in Builders : BuilderMoveCtor(d, s)
    \/ \E d, s \in Builders : BuilderMoveAssign(d, s)
    \/ \E b \in Builders : BuilderUsed(b)

SpecBuilders == Init /\ [][NextBuilders]_vars

(***************************************************************************)
(* The publish loop of vssdag_probe.                                       *)
(***************************************************************************)
\* telemetry_vss_Quality convert_quality(vss::types::SignalQuality)
convert_quality(quality) ==
    CASE quality = "VALID"   -> "QUALITY_VALID"
      [] quality = "INVALID" -> "QUALITY_INVALID"
      [] OTHER               -> "QUALITY_NOT_AVAILABLE"

\* bool set_value_fields(msg, value, string_buf): the value_type it stores, and
\* whether it succeeded.
set_value_fields(value) ==
    CASE value = "bool"     -> [ok |-> TRUE, value_type |-> "VALUE_TYPE_BOOL"]
      [] value = "uint32_t" -> [ok |-> TRUE, value_type |-> "VALUE_TYPE_INT64"]
      [] OTHER              -> [ok |-> FALSE, value_type |-> "none"]

\* Faulty variant: signals of every quality are published.
SkipQuality_Never(quality) == FALSE
\* if (sig.qualified_value.quality != SignalQuality::VALID) continue;
SkipQuality(quality) == quality # "VALID"

\* seq++ on an unsigned counter: it wraps to 0 after its largest value (the
\* range of the counter is scaled down to 0..MaxSeq).
PostIncrement(n) == IF n = MaxSeq THEN 0 ELSE n + 1

\* The body of for (i < vss_signals.size()) for one signal of the given
\* quality and value; rc is what dds_write returns if it is called.
PublishSignal(quality, value, rc) ==
    /\ dag_status = "running"
    /\ Len(written) < MaxWritten
    /\ IF SkipQuality(quality)
         THEN /\ rc = DDS_RETCODE_OK
              /\ dag_last' = [NoSignal EXCEPT !.quality = quality, !.value = value,
                                              !.seq_before = seq]
              /\ UNCHANGED <<seq, signals_published, written, dag_status>>
         ELSE /\ seq' = PostIncrement(seq)
              /\ IF ~set_value_fields(value).ok
                   THEN /\ rc = DDS_RETCODE_OK
                        /\ dag_last' = [NoSignal EXCEPT !.quality = quality,
                                                        !.value = value,
                                                        !.seq_before = seq]
                        /\ UNCHANGED <<signals_published, written, dag_status>>
                   ELSE /\ dag_last' = [NoSignal EXCEPT !.quality = quality,
                                                        !.value = value,
                                                        !.seq_before = seq,
                                                        !.write_called = TRUE,
                                                        !.rc = rc]
                        /\ IF WriteThrows(rc)
                             THEN /\ dag_status' = "thrown"
                                  /\ UNCHANGED <<signals_published, written>>
                             ELSE /\ written' = Append(written,
                                          [seq_num |-> seq,
                                           quality |-> convert_quality(quality),
                                           value_type |-> set_value_fields(value).value_type])
                                  /\ signals_published' = signals_published + 1
                                  /\ UNCHANGED dag_status
    /\ UNCHANGED <<entVars, rdVars, pubVars, qosVars, lifeVars, thrVars, probeVars, bldVars>>

NextDag ==
    \E quality \in SignalQualities, value \in ValueAlternatives, rc \in RetCodes :
        PublishSignal(quality, value, rc)

SpecDag == Init /\ [][NextDag]_vars

(***************************************************************************)
(* The probes: main() of vss_probe and of vssdag_probe.                    *)
(***************************************************************************)
\* void signal_handler(int): g_running = false.  SIGINT and SIGTERM are
\* delivered at any point of main().
signal_handler ==
    /\ status = "running"
    /\ g_running
    /\ g_running' = FALSE
    /\ UNCHANGED <<probe, main_pc, stack, iterations, sent, stale, released, status>>
    /\ UNCHANGED <<entVars, rdVars, pubVars, qosVars, lifeVars, thrVars, bldVars, dagVars>>

\* The handle the creation call of the n-th object returns on success.
ProbeHandle(n) == n

\* The release call the destructor of object o (the n-th declared) issues:
\* ~Qos calls dds_delete_qos, the others run ~Entity on a valid handle.
ReleaseCalls(o, n) ==
    IF o = "qos" THEN << <<"dds_delete_qos", o>> >>
    ELSE IF DtorDeletes(ProbeHandle(n)) THEN << <<"dds_delete", o>> >>
    ELSE <<>>

\* dds::Participant participant(...); auto qos = reliable_standard(100);
\* dds::Topic topic(...); dds::Writer writer(...): the next declaration of the
\* try block; a constructor that fails throws.
ProbeConstruct(ok) ==
    /\ main_pc = "construct"
    /\ IF ok
         THEN /\ stack' = Append(stack, ProbeObjects[Len(stack) + 1])
              /\ main_pc' = IF Len(stack') = Len(ProbeObjects) THEN "test" ELSE "construct"
              /\ status' = status
         ELSE /\ main_pc' = "unwind"
              /\ status' = "thrown"
              /\ stack' = stack
    /\ UNCHANGED <<probe, g_running, iterations, sent, stale, released>>
    /\ UNCHANGED <<entVars, rdVars, pubVars, qosVars, lifeVars, thrVars, bldVars, dagVars>>

\* Faulty variant: the loop never looks at the flag.
LoopContinues_Always(flag) == TRUE
\* while (g_running)
LoopContinues(flag) == flag

Count(n) == IF n < MaxIters THEN n + 1 ELSE MaxIters

LoopTest ==
    /\ main_pc = "test"
    /\ IF LoopContinues(g_running)
         THEN /\ main_pc' = "publish"
              /\ iterations' = Count(iterations)
              /\ sent' = 0
              /\ stale' = (stale \/ ~g_running)
         ELSE /\ main_pc' = "shutdown"
              /\ UNCHANGED <<iterations, sent, stale>>
    /\ UNCHANGED <<probe, g_running, stack, released, status>>
    /\ UNCHANGED <<entVars, rdVars, pubVars, qosVars, lifeVars, thrVars, bldVars, dagVars>>

\* The signals one iteration publishes: vss_probe every path of VSS_PATHS,
\* vssdag_probe the valid outputs of the updates it polled, possibly none.
IterationOver(more) ==
    IF probe = "vss_probe" THEN sent = MaxSignals ELSE ~more \/ sent = MaxSignals

\* The body of the loop: writer.write(msg) for each signal, which throws when
\* dds_write fails, then the sleep.
Publish(more, ok) ==
    /\ main_pc = "publish"
    /\ IF IterationOver(more)
         THEN /\ main_pc' = "sleep"
              /\ UNCHANGED <<sent, status>>
         ELSE IF ok
                THEN /\ sent' = sent + 1
                     /\ UNCHANGED <<main_pc, status>>
                ELSE /\ main_pc' = "unwind"
                     /\ status' = "thrown"
                     /\ sent' = sent
    /\ UNCHANGED <<probe, g_running, stack, iterations, stale, released>>
    /\ UNCHANGED <<entVars, rdVars, pubVars, qosVars, lifeVars, thrVars, bldVars, dagVars>>

\* std::this_thread::sleep_for(...), then back to the loop condition.
Sleep ==
    /\ main_pc = "sleep"
    /\ main_pc' = "test"
    /\ UNCHANGED <<probe, g_running, stack, iterations, sent, stale, released, status>>
    /\ UNCHANGED <<entVars, rdVars, pubVars, qosVars, lifeVars, thrVars, bldVars, dagVars>>

\* After the loop: the shutdown message, then the end of the try block.
Shutdown ==
    /\ main_pc = "shutdown"
    /\ main_pc' = "unwind"
    /\ UNCHANGED <<probe, g_running, stack, iterations, sent, stale, released, status>>
    /\ UNCHANGED <<entVars, rdVars, pubVars, qosVars, lifeVars, thrVars, bldVars, dagVars>>

\* Faulty variant: the objects are destroyed in declaration order.
NextDestroyed_First(st) == 1
\* Leaving the try block destroys its objects in reverse declaration order.
NextDestroyed(st) == Len(st)

Without(st, n) == [i \in 1..(Len(st) - 1) |-> IF i < n THEN st[i] ELSE st[i + 1]]

\* The end of the try block, normally or by an exception: one destructor
\* after the other, then return 0 or the catch clause (LOG(FATAL)).
Unwind ==
    /\ main_pc = "unwind"
    /\ IF stack = <<>>
         THEN /\ main_pc' = "exit"
              /\ status' = IF status = "thrown" THEN "fatal" ELSE "returned 0"
              /\ UNCHANGED <<stack, released>>
         ELSE LET n == NextDestroyed(stack)
                  o == stack[n]
              IN  /\ released' = released \o ReleaseCalls(o, n)
                  /\ stack' = Without(stack, n)
                  /\ UNCHANGED <<main_pc, status>>
    /\ UNCHANGED <<probe, g_running, iterations, sent, stale>>
    /\ UNCHANGED <<entVars, rdVars, pubVars, qosVars, lifeVars, thrVars, bldVars, dagVars>>

MainStep ==
    \/ \E ok \in BOOLEAN : ProbeConstruct(ok)
    \/ LoopTest
    \/ \E more \in BOOLEAN, ok \in BOOLEAN : Publish(more, ok)
    \/ Sleep
    \/ Shutdown
    \/ Unwind

NextProbe ==
    \/ signal_handler
    \/ MainStep

\* main() is the only thread of the process: it keeps running.
InitSpecProbe == InitCore /\ InitIdleThreads /\ InitProbe

SpecProbe == InitSpecProbe /\ [][NextProbe]_vars /\ WF_vars(MainStep)

(***************************************************************************)
(* Properties of the Reader (SpecReader).                                  *)
(***************************************************************************)
\* The events of the operation's log with the given name, in order.
EventsOf(name) == SelectSeq(rlog, LAMBDA ev : ev[1] = name)
\* The log without its dds_delete calls: the steps of a construction.
CtorSteps == SelectSeq(rlog, LAMBDA ev : ev[1] # "dds_delete")
CtorOrder == <<"dds_create_reader", "dds_create_waitset", "dds_waitset_attach">>
StepSucceeded(ev) ==
    IF ev[1] = "dds_waitset_attach" THEN ev[2] = DDS_RETCODE_OK ELSE ev[2] > 0
\* The retrieval call has run to its return statement, or has returned.
AtReturn == pc = "return" \/ (pc = "idle" /\ call.ret = "returned")
\* The slots of l a retrieval must deliver, in slot order.
ExpectedResults(l) ==
    LET idx == SelectSeq([k \in 1..Len(l) |-> k],
                         LAMBDA k : l[k].valid_data = TRUE /\ l[k].ptr > 0)
    IN  [j \in 1..Len(idx) |-> [slot |-> idx[j], value |-> l[idx[j]].ptr]]

\* C4: a take or read whose native retrieval returned a count >= 0 issues
\* exactly one dds_return_loan, after the scan of all returned slots and
\* before it returns, and passes it the count retrieved; it has no other exit.
C4_LoanReturnedOnce ==
    (call.op \in {"take", "read"} /\ call.count >= 0) =>
        /\ pc \in {"scan", "return_loan", "return", "idle"}
        /\ pc \in {"scan", "return_loan"} =>
              (loanOpen /\ EventsOf("dds_return_loan") = <<>>)
        /\ pc = "return_loan" => call.i = call.count
        /\ pc = "idle" => call.ret = "returned"
        /\ AtReturn =>
              /\ ~loanOpen
              /\ call.i = call.count
              /\ EventsOf("dds_return_loan") = << <<"dds_return_loan", call.count>> >>
              /\ rlog[Len(rlog)][1] = "dds_return_loan"

\* A read that has returned some but not all of the slots it retrieved.
C4_Witness ==
    /\ pc = "idle"
    /\ call.op = "read"
    /\ call.ret = "returned"
    /\ call.count >= 2
    /\ Len(call.results) = 1

\* The empty-result path: a take that retrieved nothing has returned.
C4_WitnessEmpty ==
    /\ pc = "idle"
    /\ call.op = "take"
    /\ call.ret = "returned"
    /\ call.count = 0
    /\ rlog = << <<"dds_take", 0>>, <<"dds_return_loan", 0>> >>

\* C5: a take_each whose native retrieval succeeded invokes the callback once
\* per valid record, always while the loan is held, and returns the loan
\* exactly once, after the last callback.
C5_TakeEachUnderLoan ==
    (call.op = "take_each" /\ call.count >= 0) =>
        /\ pc = "scan" => (loanOpen /\ EventsOf("dds_return_loan") = <<>>)
        /\ pc = "idle" =>
              /\ EventsOf("callback") =
                    [j \in 1..Len(ExpectedResults(loan)) |->
                        <<"callback", ExpectedResults(loan)[j].slot>>]
              /\ EventsOf("dds_return_loan") = << <<"dds_return_loan", call.count>> >>
              /\ rlog[Len(rlog)][1] = "dds_return_loan"
              /\ ~loanOpen

\* C6: a Reader is Bound only after reader creation, waitset creation and
\* attachment succeeded in that order; when a step fails the constructor
\* throws that step's status, attempts no later step, and every handle created
\* before has got exactly one dds_delete when the exception leaves.
C6_AllOrNothing ==
    /\ rstate = "Bound" =>
          /\ Valid(rEntity) /\ Valid(rWaitset)
          /\ <<rWaitset, rEntity>> \in attached
    /\ call.op = "ctor" =>
          LET n == Len(CtorSteps)
              created == {CtorSteps[k][2] : k \in {j \in 1..Min(n, 2) : CtorSteps[j][2] > 0}}
          IN  /\ n \in 1..3
              /\ \A k \in 1..n : CtorSteps[k][1] = CtorOrder[k]
              /\ \A k \in 1..(n - 1) : StepSucceeded(CtorSteps[k])
              /\ rlog = CtorSteps \o EventsOf("dds_delete")
              /\ IF n = 3 /\ StepSucceeded(CtorSteps[3])
                   THEN /\ rstate = "Bound"
                        /\ call.thrown = NoError
                        /\ EventsOf("dds_delete") = <<>>
                        /\ rEntity = CtorSteps[1][2]
                        /\ rWaitset = CtorSteps[2][2]
                   ELSE /\ rstate # "Bound"
                        /\ call.thrown # NoError
                        /\ call.thrown.code = CtorSteps[n][2]
                        /\ Len(EventsOf("dds_delete")) = Cardinality(created)
                        /\ \A h \in created :
                              /\ \E k \in 1..Len(rlog) : rlog[k] = <<"dds_delete", h>>
                              /\ deleteCalls[h] = 1
                              /\ \A p \in attached : h # p[1] /\ h # p[2]

\* A construction whose attachment failed after both handles were created.
C6_Witness ==
    /\ call.op = "ctor"
    /\ rstate = "Uninitialized"
    /\ call.thrown = Error(DDS_RETCODE_ERROR, "dds_waitset_attach")
    /\ Len(EventsOf("dds_delete")) = 2

\* A construction that succeeded.
C6_WitnessBound ==
    /\ call.op = "ctor"
    /\ rstate = "Bound"
    /\ Len(rlog) = 3

\* C7: the collection a take or read returns is exactly the subsequence, in
\* slot order, of the returned slots flagged valid with a non-null payload.
C7_ResultIsValidSubsequence ==
    (call.op \in {"take", "read"} /\ AtReturn) =>
        /\ call.results = ExpectedResults(loan)
        /\ Len(loan) = call.count

\* A take has returned the valid one of two slots, the other being flagged
\* invalid though it has a payload.
C7_Witness ==
    /\ pc = "idle"
    /\ call.op = "take"
    /\ call.ret = "returned"
    /\ Len(call.results) = 1
    /\ \E k \in 1..Len(loan) : ~loan[k].valid_data /\ loan[k].ptr # NULL

\* C12: when the native retrieval of take, take_each or read returns a
\* negative status, the operation throws Error with that status and the name
\* of the native call, delivers no record, invokes no callback and issues no
\* dds_return_loan.
C12_RetrievalFailureThrows ==
    (call.op \in {"take", "take_each", "read"} /\ call.count < 0) =>
        /\ pc = "idle"
        /\ call.thrown = Error(call.count,
                               IF call.op = "read" THEN "dds_read" ELSE "dds_take")
        /\ call.ret = "none"
        /\ call.results = <<>>
        /\ call.valid_count = 0
        /\ Len(rlog) = 1
        /\ rlog[1][2] = call.count
        /\ EventsOf("callback") = <<>>
        /\ EventsOf("dds_return_loan") = <<>>
        /\ cache = call.before

\* A take_each whose dds_take failed while the cache held a sample.
C12_Witness ==
    /\ call.op = "take_each"
    /\ call.count = DDS_RETCODE_ERROR
    /\ call.thrown = Error(DDS_RETCODE_ERROR, "dds_take")
    /\ cache # <<>>

\* C13: wait throws Error with the status when dds_waitset_wait returns a
\* negative status, returns false on zero triggered conditions and true on
\* any result greater than zero.
C13_WaitMapsResult ==
    call.op = "wait" =>
        /\ rlog = << <<"dds_waitset_wait", call.count>> >>
        /\ call.count < 0 =>
              (call.thrown = Error(call.count, "dds_waitset_wait") /\ call.ret = "none")
        /\ call.count = 0 => (call.thrown = NoError /\ call.ret = "false")
        /\ call.count > 0 => (call.thrown = NoError /\ call.ret = "true")

\* A wait that returned true on more than one triggered condition.
C13_Witness ==
    /\ call.op = "wait"
    /\ call.count > 1
    /\ call.ret = "true"

\* A wait that returned false, and one that threw.
C13_WitnessFalse == call.op = "wait" /\ call.count = 0 /\ call.ret = "false"
C13_WitnessThrow == call.op = "wait" /\ call.count < 0 /\ call.thrown # NoError

\* The records take_each has passed to its callback so far, in order.
Callbacks ==
    LET evs == EventsOf("callback")
    IN  [j \in 1..Len(evs) |-> [slot |-> evs[j][2], value |-> loan[evs[j][2]].ptr]]

IsPrefix(a, b) == Len(a) <= Len(b) /\ a = SubSeq(b, 1, Len(a))

\* C18: read leaves the cache as it found it; a read or a take that follows a
\* read with no arrival in between returns the records that read returned
\* (the same collection for the same max_samples, a longer or shorter prefix
\* relation otherwise).
C18_ReadKeepsCache ==
    /\ (call.op = "read" /\ call.count >= 0) =>
          /\ cache = call.before
          /\ call.count = Min(call.max, Len(call.before))
          /\ loan = SubSeq(call.before, 1, call.count)
    /\ (call.op \in {"read", "take"} /\ call.ret = "returned" /\ prevRead.op = "read") =>
          /\ call.max = prevRead.max => call.results = prevRead.results
          /\ call.max >= prevRead.max => IsPrefix(prevRead.results, call.results)
          /\ call.max <= prevRead.max => IsPrefix(call.results, prevRead.results)

\* A take that returned the two records the read before it had returned.
C18_Witness ==
    /\ call.op = "take"
    /\ call.ret = "returned"
    /\ prevRead.op = "read"
    /\ Len(prevRead.results) = 2
    /\ call.results = prevRead.results

\* A read that returned the record the read before it had returned.
C18_WitnessRead ==
    /\ call.op = "read"
    /\ call.ret = "returned"
    /\ prevRead.op = "read"
    /\ prevRead.results # <<>>
    /\ call.results = prevRead.results

\* C19: take and take_each remove what they retrieve: at most max_samples
\* slots are handed out, they are the first slots of the cache the call found
\* and are no longer in the cache afterwards, so that every later retrieval
\* draws from the rest; the result holds at most max_samples records.
C19_TakeRemoves ==
    /\ (call.op \in {"take", "take_each", "read"} /\ call.count >= 0) =>
          /\ call.count <= call.max
          /\ loan = SubSeq(call.before, 1, call.count)
          /\ Len(call.results) <= call.max
          /\ Len(Callbacks) <= call.max
    /\ (call.op \in {"take", "take_each"} /\ call.count >= 0) =>
          /\ loan \o cache = call.before
          /\ Len(cache) = Len(call.before) - call.count

\* A take of one record from a cache of two: one record stays behind.
C19_Witness ==
    /\ call.op = "take"
    /\ call.ret = "returned"
    /\ call.max = 1
    /\ Len(call.results) = 1
    /\ Len(call.before) = 2
    /\ Len(cache) = 1

C20_WitnessThrow ==
    /\ call.op = "take_each"
    /\ call.thrown # NoError
    /\ Len(Callbacks) = 1
    /\ Len(ExpectedResults(loan)) = 2

\* C21: the value take_each returns is the number of callback invocations
\* it made, which is the number of retrieved slots flagged valid with a
\* non-null payload; when it returns, the loan has been returned.
C21_TakeEachCount ==
    (call.op = "take_each" /\ call.ret = "returned") =>
        /\ call.retval = Len(EventsOf("callback"))
        /\ call.retval =
              Cardinality({k \in 1..Len(loan) : loan[k].valid_data /\ loan[k].ptr # NULL})
        /\ Len(loan) = call.count
        /\ ~loanOpen
        /\ Len(EventsOf("dds_return_loan")) = 1

\* A take_each over one valid record returned 1.
C21_Witness ==
    /\ call.op = "take_each"
    /\ call.ret = "returned"
    /\ call.retval = 1
    /\ call.before = << [valid_data |-> TRUE, ptr |-> 1] >>

\* A take_each over invalid slots only returned 0.
C21_WitnessZero ==
    /\ call.op = "take_each"
    /\ call.ret = "returned"
    /\ call.retval = 0
    /\ call.count = 2

\* C30: every take_each whose dds_take obtained a loan has returned that
\* loan exactly once when the call has exited, whether it returned or was
\* left by an exception of its callback.
C30_LoanReturnedOnEveryExit ==
    (call.op = "take_each" /\ call.count >= 0 /\ pc = "idle") =>
        /\ call.ret = "returned" \/ call.thrown # NoError
        /\ Len(EventsOf("dds_return_loan")) = 1
        /\ ~loanOpen

(***************************************************************************)
(* Properties of Participant, Topic and Writer (SpecPub, SpecCore).        *)
(***************************************************************************)
\* C15 as stated: the Error of a failed write carries the context "send".
C15_WriteContextIsSend ==
    pcall.op = "write" =>
        /\ pcall.ret = "returned" <=> pcall.rc = DDS_RETCODE_OK
        /\ pcall.rc # DDS_RETCODE_OK => pcall.thrown = Error(pcall.rc, "send")

\* C15: write(sample) and write(sample, timestamp) return normally exactly
\* when the native write returns DDS_RETCODE_OK; on every other status they
\* throw Error with that status and the name of the native call, "dds_write"
\* or "dds_write_ts".
C15_WriteThrowsOnFailure ==
    pcall.op = "write" =>
        /\ pcall.ret = "returned" <=> pcall.rc = DDS_RETCODE_OK
        /\ pcall.rc = DDS_RETCODE_OK => pcall.thrown = NoError
        /\ pcall.rc # DDS_RETCODE_OK =>
              /\ pcall.ret = "none"
              /\ pcall.thrown =
                    Error(pcall.rc, IF pcall.ts THEN "dds_write_ts" ELSE "dds_write")
        /\ plog[Len(plog)][2] = pcall.rc

\* A write with a timestamp that failed with the sentinel status.
C15_Witness ==
    /\ pcall.op = "write"
    /\ pcall.ts
    /\ pcall.rc = DDS_RETCODE_BAD_PARAMETER
    /\ pcall.thrown # NoError

\* A write without a timestamp that returned normally.
C15_WitnessOk == pcall.op = "write" /\ ~pcall.ts /\ pcall.ret = "returned"

\* C16: no retries.  Each write, wait, take, take_each and read issues exactly
\* one native write, wait or retrieval call, and each constructor issues one
\* creation call per resource it gets to create, whatever the call returns.
C16_NoRetry ==
    /\ call.op \in {"take", "take_each", "read"} =>
          /\ Len(EventsOf("dds_take")) + Len(EventsOf("dds_read")) = 1
          /\ rlog[1][1] = (IF call.op = "read" THEN "dds_read" ELSE "dds_take")
    /\ call.op = "wait" =>
          /\ Len(rlog) = 1
          /\ rlog[1][1] = "dds_waitset_wait"
    /\ call.op = "ctor" =>
          /\ Len(EventsOf("dds_create_reader")) = 1
          /\ Len(EventsOf("dds_create_waitset")) =
                (IF EventsOf("dds_create_reader")[1][2] > 0 THEN 1 ELSE 0)
          /\ Len(EventsOf("dds_waitset_attach")) <= 1
    /\ pcall.op = "write" =>
          /\ Len(plog) = 1
          /\ plog[1][1] = (IF pcall.ts THEN "dds_write_ts" ELSE "dds_write")
    /\ pcall.op = "ctor" =>
          /\ Len(plog) = 1
          /\ plog[1][1] = CreateCall(pcall.kind)

\* A write that failed, and a retrieval that failed.
C16_Witness == pcall.op = "write" /\ pcall.rc < 0 /\ Len(plog) = 1
C16_WitnessReader == call.op = "take" /\ call.count < 0 /\ Len(rlog) = 1

\* C17: the constructor of a Participant, a Topic or a Writer issues exactly
\* one native creation call; when it returns a negative status the
\* constructor throws Error with that status, no object exists afterwards and
\* no dds_delete is issued.
C17_CreationFailureThrows ==
    pcall.op = "ctor" =>
        /\ plog = << <<CreateCall(pcall.kind), pcall.rc>> >>
        /\ pcall.rc < 0 =>
              /\ pcall.thrown = Error(pcall.rc, "Entity creation")
              /\ pcall.ret = "none"
              /\ ~pubLive[pcall.kind]
              /\ pubHandle[pcall.kind] = DefaultHandle
        /\ pcall.rc > 0 =>
              /\ pcall.thrown = NoError
              /\ pubLive[pcall.kind]
              /\ pubHandle[pcall.kind] = pcall.rc

\* A Writer whose creation failed although its Participant and Topic exist.
C17_Witness ==
    /\ pcall.op = "ctor"
    /\ pcall.kind = "Writer"
    /\ pcall.rc < 0
    /\ pubLive["Participant"] /\ pubLive["Topic"]
    /\ ~pubLive["Writer"]

(***************************************************************************)
(* Properties of Qos and the presets (SpecQos).                            *)
(***************************************************************************)
\* The configuration after the one mutator call said = <<fn, arg, _>> on c.
ApplyCall(c, said) ==
    CASE said[1] = "reliability_reliable"       -> SetReliabilityReliable(c, said[2])
      [] said[1] = "reliability_best_effort"    -> SetReliabilityBestEffort(c)
      [] said[1] = "durability_volatile"        -> SetDurabilityVolatile(c)
      [] said[1] = "durability_transient_local" -> SetDurabilityTransientLocal(c)
      [] said[1] = "history_keep_last"          -> SetHistoryKeepLast(c, said[2])
      [] said[1] = "history_keep_all"           -> SetHistoryKeepAll(c)
      [] OTHER                                  -> c

\* The configuration of a fresh Qos after only the last call of each dimension.
OnlyLast(said) ==
    ApplyCall(ApplyCall(ApplyCall(FreshQos, said.reliability), said.durability),
              said.history)

\* C22: the configuration a chain of mutator calls leaves in a fresh Qos is
\* the one that only the last call of each dimension produces; each
\* dimension holds what its own last call set, whatever was called in the
\* other two.
C22_LastCallWins ==
    \A q \in Qs :
        (qobj[q] = "live" /\ qptr[q] # NULL) =>
            LET c == qcfg[qptr[q]]
                said == qsaid[qptr[q]]
            IN  /\ c = OnlyLast(said)
                /\ c.reliability = ApplyCall(FreshQos, said.reliability).reliability
                /\ c.durability = ApplyCall(FreshQos, said.durability).durability
                /\ c.history = ApplyCall(FreshQos, said.history).history

\* A chain that set the history twice and ended with a durability call.
C22_Witness ==
    /\ qobj["qos"] = "live" /\ qptr["qos"] # NULL
    /\ qlast.op = "durability_volatile"
    /\ qsaid[qptr["qos"]].history = <<"history_keep_all", 0, TRUE>>
    /\ qsaid[qptr["qos"]].durability[3]
    /\ qsaid[qptr["qos"]].reliability[1] = "reliability_best_effort"

\* C23: reliable_critical() is RELIABLE(10 s) + TRANSIENT_LOCAL + KEEP_ALL;
\* reliable_standard(d) is RELIABLE(1 s) + VOLATILE + KEEP_LAST(d), d = 100
\* when omitted; best_effort(d) is BEST_EFFORT + VOLATILE + KEEP_LAST(d),
\* d = 1 when omitted.
C23_PresetComposition ==
    (qlast.op \in {"reliable_critical", "reliable_standard", "best_effort"}
       /\ ~qlast.thrown) =>
        LET c == qcfg[qptr[qlast.q]]
            d == IF qlast.given THEN qlast.arg
                 ELSE IF qlast.op = "reliable_standard" THEN 100 ELSE 1
        IN  /\ qobj[qlast.q] = "live" /\ qptr[qlast.q] # NULL
            /\ qlast.op = "reliable_critical" =>
                  /\ c.reliability = [kind |-> "DDS_RELIABILITY_RELIABLE",
                                      max_blocking_time |-> DDS_SECS(10)]
                  /\ c.durability = "DDS_DURABILITY_TRANSIENT_LOCAL"
                  /\ c.history.kind = "DDS_HISTORY_KEEP_ALL"
            /\ qlast.op = "reliable_standard" =>
                  /\ c.reliability = [kind |-> "DDS_RELIABILITY_RELIABLE",
                                      max_blocking_time |-> DDS_SECS(1)]
                  /\ c.durability = "DDS_DURABILITY_VOLATILE"
                  /\ c.history = [kind |-> "DDS_HISTORY_KEEP_LAST", depth |-> d]
            /\ qlast.op = "best_effort" =>
                  /\ c.reliability.kind = "DDS_RELIABILITY_BEST_EFFORT"
                  /\ c.durability = "DDS_DURABILITY_VOLATILE"
                  /\ c.history = [kind |-> "DDS_HISTORY_KEEP_LAST", depth |-> d]

\* reliable_standard(d) with a depth that is not the default.
C23_Witness ==
    /\ qlast.op = "reliable_standard"
    /\ qlast.given /\ qlast.arg = 1
    /\ ~qlast.thrown
    /\ qcfg[qptr[qlast.q]].history.depth = 1

\* best_effort() and reliable_standard() with the depth omitted.
C23_WitnessDefault ==
    /\ qlast.op = "best_effort"
    /\ ~qlast.given
    /\ ~qlast.thrown
    /\ qcfg[qptr[qlast.q]].history.depth = 1
C23_WitnessStandard ==
    /\ qlast.op = "reliable_standard"
    /\ ~qlast.given
    /\ ~qlast.thrown
    /\ qcfg[qptr[qlast.q]].history.depth = 100

(***************************************************************************)
(* Properties of Reader objects as values (SpecReaderLife).                *)
(***************************************************************************)
\* The dds_delete calls of the last operation, in order.
LifeDeletes == SelectSeq(llog, LAMBDA ev : ev[1] = "dds_delete")

\* C24: when the two Entities of a Reader are torn down together, by the
\* destruction of a bound Reader or by the unwinding of a construction whose
\* attachment failed, each handle is deleted exactly once, the waitset
\* handle before the reader handle.
C24_WaitsetReleasedFirst ==
    ((llast.op = "~Reader" /\ Valid(llast.preE) /\ Valid(llast.preW))
       \/ (llast.op = "Reader" /\ llast.thrown.context = "dds_waitset_attach")) =>
        /\ llast.preE # llast.preW
        /\ LifeDeletes = << <<"dds_delete", llast.preW>>, <<"dds_delete", llast.preE>> >>
        /\ ldel[llast.preW] = 1
        /\ ldel[llast.preE] = 1
        /\ \A o \in Rds : lEntity[o] # llast.preE /\ lWaitset[o] # llast.preW

\* A bound Reader that had been moved into the other object was destroyed.
C24_Witness ==
    /\ llast.op = "~Reader"
    /\ llast.dst = "other"
    /\ Valid(llast.preE) /\ Valid(llast.preW)
    /\ Len(LifeDeletes) = 2

\* A construction was unwound after its attachment failed.
C24_WitnessUnwind ==
    /\ llast.op = "Reader"
    /\ llast.thrown.context = "dds_waitset_attach"
    /\ Len(LifeDeletes) = 2

\* C25: of every Reader object that exists, after construction and after
\* being the source or the destination of a move, entity_ and waitset_ are
\* both valid or both invalid, and a valid waitset_ is attached to the
\* object's own entity_ and to nothing else.
C25_BothOrNeither ==
    \A o \in Rds :
        lobj[o] = "live" =>
            /\ Valid(lEntity[o]) <=> Valid(lWaitset[o])
            /\ Valid(lWaitset[o]) =>
                  /\ <<lWaitset[o], lEntity[o]>> \in lattached
                  /\ \A p \in lattached : p[1] = lWaitset[o] => p[2] = lEntity[o]
                  /\ \A x \in Rds \ {o} : lWaitset[x] # lWaitset[o] /\ lEntity[x] # lEntity[o]

\* A bound Reader was move-assigned over another bound Reader.
C25_Witness ==
    /\ llast.op = "operator="
    /\ llast.dst # llast.src
    /\ Valid(llast.preE)
    /\ Valid(lEntity[llast.dst]) /\ Valid(lWaitset[llast.dst])
    /\ lobj[llast.src] = "live" /\ ~Valid(lEntity[llast.src])

(***************************************************************************)
(* Properties of concurrent operations on distinct instances (SpecThreads).*)
(***************************************************************************)
\* What thread t's operation leaves when it runs alone from the handles h:
\* the handles of its two instances, the value returned, the handles deleted.
Alone(t, h) ==
    LET o == Obj(t)
        s == Src(t)
    IN  CASE top[t] = "~Entity" ->
               [obj |-> h[o], src |-> h[s], ret |-> DefaultHandle,
                deleted |-> IF h[o] > 0 THEN {h[o]} ELSE {}]
          [] top[t] = "release" ->
               [obj |-> DDS_RETCODE_BAD_PARAMETER, src |-> h[s], ret |-> h[o],
                deleted |-> {}]
          [] top[t] = "operator=" ->
               [obj |-> h[s], src |-> DDS_RETCODE_BAD_PARAMETER, ret |-> DefaultHandle,
                deleted |-> IF h[o] > 0 THEN {h[o]} ELSE {}]
          [] OTHER ->
               [obj |-> h[s], src |-> DDS_RETCODE_BAD_PARAMETER, ret |-> DefaultHandle,
                deleted |-> {}]

AllDone == \A t \in Threads : tpc[t] = "done"

\* C26: operations on distinct instances share no state.  While a thread
\* has not started, its instances hold what they held at the start, whatever
\* the other thread has done; when both threads are done, in every
\* interleaving of their statements, every handle, every value returned and
\* the dds_delete calls issued are those of running the operations one after
\* the other.
C26_NoSharedState ==
    /\ \A t \in Threads :
          tpc[t] = "start" =>
              /\ thandle[Obj(t)] = th0[Obj(t)]
              /\ thandle[Src(t)] = th0[Src(t)]
    /\ AllDone =>
          /\ \A t \in Threads :
                /\ thandle[Obj(t)] = Alone(t, th0).obj
                /\ thandle[Src(t)] = Alone(t, th0).src
                /\ tret[t] = Alone(t, th0).ret
          /\ \A h \in DOMAIN tdel :
                tdel[h] = Cardinality({t \in Threads : h \in Alone(t, th0).deleted})

\* Both threads are done: one released a valid handle while the other
\* move-assigned over a valid handle.
C26_Witness ==
    /\ AllDone
    /\ top["A"] = "release" /\ tret["A"] = 1
    /\ top["B"] = "operator=" /\ tdel[3] = 1 /\ thandle["b1"] = 4

(***************************************************************************)
(* Properties of the probes (SpecProbe).                                   *)
(***************************************************************************)
HandleReleases == SelectSeq(released, LAMBDA c : c[1] = "dds_delete")

\* C29: the publish loop checks the cancellation flag between iterations.
\* No iteration starts while the flag is false; once the flag is false
\* main() ends; and when main() has ended after its Writer was created, the
\* dds_delete calls are exactly one for the Writer, one for the Topic and
\* one for the Participant, in that order.
C29_CancelStopsLoop ==
    /\ [](~stale)
    /\ (~g_running ~> main_pc = "exit")
    /\ [](main_pc = "exit" /\ iterations > 0 =>
              HandleReleases = << <<"dds_delete", "writer">>,
                                  <<"dds_delete", "topic">>,
                                  <<"dds_delete", "participant">> >>)

\* The flag was cleared, main() returned 0 after at least one iteration.
C29_Witness ==
    /\ ~g_running
    /\ main_pc = "exit"
    /\ status = "returned 0"
    /\ iterations > 0
    /\ Len(released) = Len(ProbeObjects)

(***************************************************************************)
(* Destruction order on the publication side (SpecPub).                    *)
(***************************************************************************)
\* C31: no dds_delete is issued for a handle the runtime has already
\* released: every dds_delete a destructor issues is for an entity that is
\* still live in the runtime, whatever the order in which the Participant
\* and the objects created from it are destroyed.
C31_NoReleaseOfReleased ==
    (pcall.op = "dtor" /\ plog # <<>>) => pcall.rc = DDS_RETCODE_OK

\* The objects the last constructor was given that are not valid.
InvalidParents == {q \in Parents(pcall.kind) : ~(pubHandle[q] > 0)}

C32_WitnessTopic ==
    /\ pcall.op = "ctor"
    /\ pcall.kind = "Topic"
    /\ pubHandle["Participant"] = DDS_RETCODE_BAD_PARAMETER

(***************************************************************************)
(* Failure of the release in Entity move assignment (Spec).                *)
(***************************************************************************)
\* C33: when the dds_delete that a move assignment issues for the previous
\* handle of its destination fails, the failure is reported as a warning,
\* nothing is thrown, and the destination holds the handle of the source.
C33_AssignFailureReported ==
    (last.op = "move_assign" /\ last.deleted # <<>> /\ last.rc # DDS_RETCODE_OK) =>
        /\ last.warned
        /\ last.thrown = NoError
        /\ handle[last.dst] = last.preSrc

(***************************************************************************)
(* Properties of Qos as a value (SpecBuilders).                            *)
(***************************************************************************)
Owners(n) == {b \in Builders : bobj[b] = "live" /\ bptr[b] = n}

\* C34: every native QoS object that was allocated is owned by exactly one
\* builder and not freed, or owned by none and freed exactly once (so none
\* is freed twice, and none is left when all builders are destroyed),
\* whether or not it was handed to a creation call; a builder that was
\* the source of a move holds no object, and destroying a builder that
\* holds none frees nothing.
C34_FreedExactlyOnce ==
    /\ \A n \in Cfgs :
          IF n < bnext
            THEN \/ Cardinality(Owners(n)) = 1 /\ bfreed[n] = 0
                 \/ Owners(n) = {} /\ bfreed[n] = 1
            ELSE Owners(n) = {} /\ bfreed[n] = 0
    /\ (blast.op \in {"Qos(Qos&&)", "operator="} /\ blast.dst # blast.src) =>
          bptr[blast.src] = NULL
    /\ (blast.op = "~Qos" /\ blast.preDst = NULL) =>
          \A n \in Cfgs : bfreed[n] = (IF n < bnext /\ Owners(n) = {} THEN 1 ELSE 0)

\* A builder was used for a creation call and every builder has been
\* destroyed since: the object handed to the creation call was freed once.
C34_Witness ==
    /\ \A b \in Builders : bobj[b] = "dead"
    /\ bnext > 1
    /\ bgiven # {}
    /\ \A n \in bgiven : bfreed[n] = 1

\* The destructor of a moved-from builder has run.
C34_WitnessMovedFrom ==
    /\ blast.op = "~Qos"
    /\ blast.preDst = NULL
    /\ \E b \in Builders : bobj[b] = "live" /\ bptr[b] # NULL

(***************************************************************************)
(* Properties of the publish loop of vssdag_probe (SpecDag).               *)
(***************************************************************************)
\* C35: the messages written carry consecutive sequence numbers: the k-th
\* message written has seq_num k-1, counted in the range of the counter.
C35_ConsecutiveSeqNums ==
    \A k \in 1..Len(written) : written[k].seq_num = (k - 1) % (MaxSeq + 1)

SupportedAlternatives == {"bool", "uint32_t"}

\* C36: dds_write is called for a signal exactly when its quality is VALID
\* and its value is of a supported type; a signal that is not written changes
\* neither the messages written nor signals_published; every message
\* written has quality QUALITY_VALID; and signals_published is the number of
\* dds_write calls that returned successfully.
C36_WritesExactlyValidSupported ==
    /\ dag_last # NoSignal =>
          (dag_last.write_called <=>
              (dag_last.quality = "VALID" /\ dag_last.value \in SupportedAlternatives))
    /\ \A k \in 1..Len(written) : written[k].quality = "QUALITY_VALID"
    /\ signals_published = Len(written)
    /\ dag_status = "thrown" => (dag_last.write_called /\ dag_last.rc # DDS_RETCODE_OK)

\* A VALID signal of an unsupported type was skipped after a message had
\* been written.
C36_Witness ==
    /\ dag_last.quality = "VALID"
    /\ dag_last.value = "std::monostate"
    /\ ~dag_last.write_called
    /\ signals_published > 0

\* A write failed after a message had been written.
C36_WitnessThrown ==
    /\ dag_status = "thrown"
    /\ signals_published > 0

=============================================================================
